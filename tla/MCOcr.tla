------------------------------- MODULE MCOcr ---------------------------------
(* protocols/code-review-ocr: a leg per changed file, each a sub-pipeline with *)
(* a leg per finding of its main review, reduced and then merged.  Every       *)
(* max_iterations is 1; here a finding of the first file may be looked at twice. *)
EXTENDS StatusView, TLC

Unit(max) == [kind |-> "agent", max |-> max, halts |-> FALSE]
Agent == Unit(1)
AnyPolicy == [kind |-> "any"]
Dynamic(legs) == [kind |-> "fanout", dynamic |-> TRUE, children |-> legs]
InSeq(ids) == {ids[i] : i \in DOMAIN ids}

\* The leg of each file, and the legs of its findings.
EachFile(files, findings) ==
  [p \in {<<"review", f>> : f \in InSeq(files)} |->
     [kind |-> "sequence",
      children |-> <<"plan", "main-review", "findings", "join-findings", "reduce">>]]
  @@ [p \in {<<"review", f, a>> : f \in InSeq(files), a \in {"plan", "main-review"}} |-> Agent]
  @@ [p \in {<<"review", f, "findings">> : f \in InSeq(files)} |-> Dynamic(findings)]
  @@ [p \in {<<"review", f, "findings", i>> : f \in InSeq(files), i \in InSeq(findings)} |-> Agent]
  @@ [p \in {<<"review", f, "join-findings">> : f \in InSeq(files)} |->
        [kind |-> "join", of |-> "findings", next |-> "reduce", policy |-> AnyPolicy]]
  @@ [p \in {<<"review", f, "reduce">> : f \in InSeq(files)} |->
        [kind |-> "merge", from |-> "findings"]]

OcrRoot(files) ==
  <<>> :> [kind |-> "root", children |-> <<"review", "join-review", "merge">>]
  @@ <<"review">> :> Dynamic(files)
  @@ <<"join-review">> :>
       [kind |-> "join", of |-> "review", next |-> "merge", policy |-> AnyPolicy]
  @@ <<"merge">> :> [kind |-> "merge", from |-> "review"]

TwoFiles ==
  <<"review", "f", "findings", "x">> :> Unit(2)
  @@ OcrRoot(<<"f", "g">>) @@ EachFile(<<"f", "g">>, <<"x">>)

\* protocols/dyn-fanout-stub: a leg per file, joined when all are done.
FlatFiles ==
  <<>> :> [kind |-> "root", children |-> <<"review", "join">>]
  @@ <<"review">> :> Dynamic(<<"f", "g">>)
  @@ [q \in {<<"review", "f">>, <<"review", "g">>} |-> Agent]
  @@ <<"join">> :> [kind |-> "join", of |-> "review", next |-> "done", policy |-> AllPolicy]

\* The trees the configurations name: TLC evaluates a definition that is named
\* there each time it is used, and what that one stands for once.
TwoFilesTree == TwoFiles
FlatFilesTree == FlatFiles

OneRun == [start |-> 1, reply |-> 0, redelivery |-> 0, death |-> 0]
Restarted == [start |-> 2, reply |-> 0, redelivery |-> 0, death |-> 0]
Replayed == [start |-> 2, reply |-> 0, redelivery |-> 1, death |-> 0]

\* After a redelivery, two jobs at a time.
FewJobs == used["redelivery"] = 0 \/ Cardinality(jobs) <= 2
=============================================================================
