------------------------------- MODULE Apply --------------------------------
(***************************************************************************)
(* zenmaster/apply.py: apply() takes the tokens of a preset one by one,    *)
(* and each token's messages one by one.  A token is refused with an error *)
(* result and the loop goes on; an OSError of an access leaves the whole   *)
(* call, and its results are lost.                                         *)
(*                                                                         *)
(* A token is [name, eq, val]: the name without dashes, underscores and    *)
(* capitals, whether a "=" follows, and the value (see ArgWords).          *)
(***************************************************************************)
EXTENDS ArgWords, Runner

VARIABLES
    cpu,        \* the family detect() found
    apc,        \* "idle", "next" token, "send", "done", or "raised"
    tokens,     \* tokens, what shlex.split made of the preset
    tok,        \* the number of tokens taken
    msgs,       \* the messages left to send for the token in hand
    word,       \* what they carry: smu_val
    anyOk,      \* any_ok
    results,    \* results; tok, the token a result belongs to, is added
    rejected,   \* had_rejection
    sent        \* every request of this call, in order: added, not in the code

applyVars == <<apc, tokens, tok, msgs, word, anyOk, results, rejected, sent>>

\* What partition("=") makes of a token.
Token == [name : STRING, eq : BOOLEAN, val : Seq(Int)]

Status == {"ok", "refused"}

\* The family is one of apu-skin-temp's, _APU_SKIN_FAMILIES.
HasApuSkin(family) == family \in {"Renoir", "Rembrandt"}

Canonical(name) == IF name = "tctl-limit" THEN "tctl-temp" ELSE name

\* Values with a delimiter parse for the two packed arguments only.
Parses(name, val) ==
    IF name \in {"set-coper", "oc-clk-per-core"} THEN val # <<>> ELSE Len(val) = 1

\* The errors apply() finds before it sends anything for a token.
Refused(family, t) ==
    LET name == Canonical(t.name)
    IN  \/ ~IsFlagArg(name) /\ (~t.eq \/ ~Parses(name, t.val))
        \/ name = "apu-skin-temp" /\ ~HasApuSkin(family)
        \/ Lookup(family, name) = <<>>

Mailbox(m) == IF IsHsmp(cpu) THEN "HSMP" ELSE IF m.mp1 THEN "MP1" ELSE "RSMU"

ApplyInit ==
    /\ apc = "idle"
    /\ tokens = <<>> /\ tok = 0 /\ msgs = <<>> /\ word = <<0, 0>>
    /\ anyOk = FALSE /\ results = <<>> /\ rejected = FALSE /\ sent = <<>>

\* shlex.split: an unclosed quote refuses the preset as a whole.
Begin(preset, broken) ==
    /\ apc' = IF broken THEN "done" ELSE "next"
    /\ tokens' = IF broken THEN <<>> ELSE preset
    /\ results' = IF broken THEN <<[tok |-> 0, st |-> "error"]>> ELSE <<>>
    /\ rejected' = broken
    /\ tok' = 0 /\ sent' = <<>>
    /\ UNCHANGED <<msgs, word, anyOk>>

TakeToken ==
    /\ apc = "next" /\ tok < Len(tokens)
    /\ tok' = tok + 1
    /\ UNCHANGED tokens

\* A token of dashes only has no name.
SkipToken ==
    /\ TakeToken
    /\ tokens[tok + 1].name = ""
    /\ UNCHANGED <<apc, msgs, word, anyOk, results, rejected, sent>>

BugRefuseToken ==
    /\ TakeToken
    /\ tokens[tok + 1].name # "" /\ Refused(cpu, tokens[tok + 1])
    /\ rejected' = TRUE
    /\ UNCHANGED <<apc, msgs, word, anyOk, results, sent>>
RefuseToken ==
    /\ TakeToken
    /\ tokens[tok + 1].name # "" /\ Refused(cpu, tokens[tok + 1])
    /\ results' = Append(results, [tok |-> tok', st |-> "error"])
    /\ rejected' = TRUE
    /\ UNCHANGED <<apc, msgs, word, anyOk, sent>>

BugStartToken ==
    LET t    == tokens[tok + 1]
        name == Canonical(t.name)
    IN  /\ TakeToken
        /\ t.name # "" /\ ~Refused(cpu, t)
        /\ msgs' = Lookup(cpu, name)
        /\ word' = IF IsFlagArg(name) THEN word ELSE Encode(name, t.val, IsHsmp(cpu))
        /\ anyOk' = FALSE /\ apc' = "send"
        /\ UNCHANGED <<results, rejected, sent>>
\* A flag carries 0, whatever value was given.
StartToken ==
    LET t    == tokens[tok + 1]
        name == Canonical(t.name)
    IN  /\ TakeToken
        /\ t.name # "" /\ ~Refused(cpu, t)
        /\ msgs' = Lookup(cpu, name)
        /\ word' = Encode(name, IF IsFlagArg(name) THEN <<0>> ELSE t.val, IsHsmp(cpu))
        /\ anyOk' = FALSE /\ apc' = "send"
        /\ UNCHANGED <<results, rejected, sent>>

\* send_mp1, send_rsmu, send_hsmp and the queries, which carry no word; left,
\* what is left to send for the token, is added.
Request(m) ==
    [tok |-> tok, box |-> Mailbox(m), op |-> m.op, left |-> msgs,
     word |-> IF IsQuery(Canonical(tokens[tok].name)) THEN <<0, 0>> ELSE word]

\* The token is rejected when the SMU has accepted none of its messages.
BugSend(status) ==
    /\ apc = "send"
    /\ sent' = Append(sent, Request(Head(msgs)))
    /\ results' = Append(results, [tok |-> tok, st |-> status])
    /\ msgs' = Tail(msgs)
    /\ anyOk' = (anyOk \/ status = "ok")
    /\ apc' = IF msgs' = <<>> THEN "next" ELSE "send"
    /\ rejected' = (msgs' = <<>> /\ ~anyOk')
    /\ UNCHANGED <<tokens, tok, word>>
Send(status) ==
    /\ apc = "send"
    /\ sent' = Append(sent, Request(Head(msgs)))
    /\ results' = Append(results, [tok |-> tok, st |-> status])
    /\ msgs' = Tail(msgs)
    /\ anyOk' = (anyOk \/ status = "ok")
    /\ apc' = IF msgs' = <<>> THEN "next" ELSE "send"
    /\ rejected' = (rejected \/ (msgs' = <<>> /\ ~anyOk'))
    /\ UNCHANGED <<tokens, tok, word>>

\* An access raises OSError in the middle of the request.
SendRaises ==
    /\ apc = "send"
    /\ sent' = Append(sent, Request(Head(msgs)))
    /\ apc' = "raised"
    /\ UNCHANGED <<tokens, tok, msgs, word, anyOk, results, rejected>>

\* The end of the loop, whatever was refused in it.
BugReturn ==
    /\ apc = "next" /\ (tok = Len(tokens) \/ rejected)
    /\ apc' = "done"
    /\ UNCHANGED <<tokens, tok, msgs, word, anyOk, results, rejected, sent>>
Return ==
    /\ apc = "next" /\ tok = Len(tokens)
    /\ apc' = "done"
    /\ UNCHANGED <<tokens, tok, msgs, word, anyOk, results, rejected, sent>>

ApplyNext ==
    \/ SkipToken \/ RefuseToken \/ StartToken
    \/ \E status \in Status : Send(status)
    \/ SendRaises \/ Return

\* The token got a message through.
Applied(n) == \E i \in DOMAIN results : results[i] = [tok |-> n, st |-> "ok"]
=============================================================================
