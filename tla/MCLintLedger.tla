---- MODULE MCLintLedger ----
(* The findings behind the counts of LintLedger, as the classifier pairs them. *)
EXTENDS CandidateSelection

MaxFindings == 2
Counts == INSTANCE LintLedger WITH MaxIssues <- MaxFindings

Finding(c, x, e) == [code |-> c, text |-> x, isError |-> e]

Findings ==
    {Finding("SYNTAX", t, TRUE) : t \in {"t", "u", "v"}}
        \cup {Finding("WIDTH", "t", FALSE), Finding("WIDTH", "u", TRUE),
              Finding("UNUSED", "t", FALSE)}

FindingLists == BoundedSeq(Findings, MaxFindings)

\* The fuzzy comparison of texts: not transitive.
Likenesses ==
    {{<<x, x>> : x \in {"t", "u", "v"}} \cup {<<p[1], p[2]>> : p \in P}
                                        \cup {<<p[2], p[1]>> : p \in P} :
        P \in SUBSET {<<"t", "u">>, <<"t", "v">>, <<"u", "v">>}}

CountOf(fs) ==
    LET number(Is(_)) == Len(SelectSeq(fs, Is)) IN
    [syntax |-> number(LAMBDA f : f.code = "SYNTAX"),
     error |-> number(LAMBDA f : f.code # "SYNTAX" /\ f.isError),
     semantic |-> number(LAMBDA f : f.code = "WIDTH" /\ ~f.isError),
     hygiene |-> number(LAMBDA f : f.code = "UNUSED")]

\* Whatever findings the linter lists and however alike they are, the greedy pairing
\* gives one of the ledgers that LintLoop explores for their counts, and the
\* decision on the counts is the classifier's.
ASSUME LedgersAreTheClassifiers ==
    \A b, c \in FindingLists : \A alike \in Likenesses :
        LET full == FindingLedger(b, c, alike)
            l == [persisting |-> full.persisting,
                  introduced |-> Cardinality(full.introduced)]
        IN  /\ l \in Counts!Ledgers(CountOf(b), CountOf(c))
            /\ Counts!Revealed(CountOf(c), l) = Cardinality(full.revealed)
            /\ Counts!classifyDiagnostics(CountOf(b), CountOf(c), l)
                    = PatchDecision(b, c, alike)

\* The pairing is greedy and likeness is not transitive: the same findings listed in
\* another order are progress or no change.
ASSUME PairingDependsOnOrder ==
    \E b \in FindingLists, alike \in Likenesses : \E c \in FindingLists :
        /\ PatchDecision(b, c, alike) = "ACCEPT_PROGRESS"
        /\ PatchDecision(b, Reverse(c), alike) = "ACCEPT_EQUIVALENT"
====
