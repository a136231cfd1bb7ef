------------------------------- MODULE MCCli --------------------------------
(* The command lines and processors for checking Cli. *)
EXTENDS Cli

Tok(name, val)  == [name |-> name, eq |-> TRUE, val |-> val]
Bare(name)      == [name |-> name, eq |-> FALSE, val |-> <<>>]
OneWord(t)      == [tokens |-> <<t>>, broken |-> FALSE]

MCTokens ==
    {Tok("set-coper", <<1, 2, -30>>), Tok("set-coper", <<1, 1, 2, -30>>),
     Tok("set-coper", <<9, -5>>), Tok("set-coper", <<-7>>), Tok("set-coper", <<>>),
     Tok("set-coall", <<-20>>), Tok("set-cogfx", <<15>>),
     Tok("tctl-temp", <<95000>>), Tok("tctl-limit", <<90>>),
     Tok("apu-skin-temp", <<50>>), Tok("dgpu-skin-temp", <<45>>),
     Tok("skin-temp-limit", <<15000>>), Tok("pbo-scalar", <<200>>),
     Tok("oc-clk-per-core", <<1, 3, 9000>>), Tok("oc-clk-per-core", <<1, 1, 2, 4500>>),
     Tok("stapm-limit", <<15000>>), Tok("stapm-limit", <<-1>>),
     Tok("stapm-limit", <<1, 2>>), Bare("stapm-limit"),
     Bare("enable-oc"), Bare("get-pbo-scalar"), Bare(""), Tok("bogus", <<1>>)}

\* Words a shell's quotes make: two arguments in one, and a quote left open.
QuotedWords ==
    {[tokens |-> <<Tok("set-coall", <<-20>>), Tok("tctl-limit", <<90>>)>>, broken |-> FALSE],
     [tokens |-> <<Tok("set-coall", <<-20>>), Bare("bogus")>>, broken |-> FALSE],
     [tokens |-> <<Bare("enable-oc"), Tok("set-coall", <<-20>>)>>, broken |-> FALSE],
     [tokens |-> <<Tok("set-coall", <<-20>>)>>, broken |-> TRUE]}

MCWords == {OneWord(t) : t \in MCTokens} \cup QuotedWords

LineOf(flags, words, reapply) == [flags |-> flags, words |-> words, reapply |-> reapply]

\* Every pair of flags without a word, every flag with one, and every pair of
\* words without a flag.
MCCommandLine ==
    LET flag == {"help", "version", "json", "info", "table", "dump", "sensors"}
    IN  {LineOf(f, <<>>, FALSE) : f \in {g \in SUBSET flag : Cardinality(g) <= 3}}
        \cup {LineOf({f}, <<w>>, FALSE) : f \in flag, w \in MCWords}
        \cup {LineOf({}, <<w>>, r) : w \in MCWords, r \in BOOLEAN}
        \cup {LineOf({}, <<w[1], w[2]>>, r) :
                  w \in {u \in MCWords \X MCWords : ~(u[1].broken /\ u[2].broken)}, r \in BOOLEAN}
        \cup {LineOf({}, <<>>, TRUE)}

MCCpu == {"Vermeer", "Renoir", "Rembrandt", "StrixHalo", "Medusa1", "other"}
=============================================================================
