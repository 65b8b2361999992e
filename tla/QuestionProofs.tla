---------------------------- MODULE QuestionProofs ----------------------------
(***************************************************************************)
(* Theorems about the scripts that keep no state: the router, for any      *)
(* number of protocols, triggers and letters; the runner of the checks,    *)
(* for nodes with any number of checks; the lint and the names of inputs,  *)
(* for any protocol.                                                       *)
(***************************************************************************)
EXTENDS Routing, CheckRunner, Validation, Inputs, FiniteSetTheorems, WellFoundedInduction, TLAPS

-----------------------------------------------------------------------------
(* The rule for prefixes. *)

\* Two prefixes of one text: one begins with the other.
LEMMA PrefixesCompare ==
  ASSUME NEW Letter, NEW text \in Seq(Letter), NEW s \in Seq(Letter), NEW t \in Seq(Letter),
         StartsWith(text, s), StartsWith(text, t)
  PROVE  StartsWith(s, t) \/ StartsWith(t, s)
<1>1. CASE Len(t) <= Len(s)
  BY <1>1 DEF StartsWith
<1>2. CASE Len(s) <= Len(t)
  BY <1>2 DEF StartsWith
<1>3. Len(s) \in Nat /\ Len(t) \in Nat
  OBVIOUS
<1>4. QED
  BY <1>1, <1>2, <1>3

\* A command comes from a trigger that matches.
LEMMA CommandHasTrigger ==
  ASSUME NEW triggers, NEW event, MatchTrigger(triggers, event) # NoCommand
  PROVE  \E i \in DOMAIN triggers : Matches(triggers[i], event)
BY DEF MatchTrigger

\* Under the rule of route's error message no two protocols take one comment.
LEMMA OneTaker ==
  ASSUME NEW Letter, NEW protocols, NEW event,
         event.on = "issue_comment", event.body \in Seq(Letter),
         \A name \in DOMAIN protocols : \A i \in DOMAIN protocols[name] :
           protocols[name][i].prefix \in Seq(Letter),
         Exclusive(protocols),
         NEW m \in Takers(protocols, event), NEW n \in Takers(protocols, event)
  PROVE  m = n
<1> SUFFICES ASSUME m # n PROVE FALSE
  OBVIOUS
<1>1. m \in DOMAIN protocols /\ n \in DOMAIN protocols
  BY DEF Takers
<1>2. PICK i \in DOMAIN protocols[m] : Matches(protocols[m][i], event)
  BY CommandHasTrigger DEF Takers
<1>3. PICK k \in DOMAIN protocols[n] : Matches(protocols[n][k], event)
  BY CommandHasTrigger DEF Takers
<1> DEFINE t == protocols[m][i]
           u == protocols[n][k]
<1>4. /\ t \in CommentTriggers(protocols[m])
      /\ u \in CommentTriggers(protocols[n])
      /\ t.target = u.target
      /\ StartsWith(event.body, t.prefix)
      /\ StartsWith(event.body, u.prefix)
  BY <1>2, <1>3 DEF Matches, CommentTriggers
<1>5. StartsWith(t.prefix, u.prefix) \/ StartsWith(u.prefix, t.prefix)
  <2>1. t.prefix \in Seq(Letter) /\ u.prefix \in Seq(Letter)
    BY <1>1
  <2>2. QED
    BY <1>4, <2>1, PrefixesCompare
<1>6. ~StartsWith(u.prefix, t.prefix)
  BY <1>1, <1>4 DEF Exclusive
<1>7. ~StartsWith(t.prefix, u.prefix)
  BY <1>1, <1>4 DEF Exclusive
<1>8. QED
  BY <1>5, <1>6, <1>7

\* lib.route: protocols whose prefixes exclude each other share a repository
\* safely; a comment starts the protocol that has a command for it.
THEOREM CommentsAreRouted ==
  ASSUME NEW Letter, NEW protocols, NEW event,
         event.body \in Seq(Letter),
         \A name \in DOMAIN protocols : \A i \in DOMAIN protocols[name] :
           protocols[name][i].prefix \in Seq(Letter)
  PROVE  CommentReachesProtocol(protocols, event)
<1> SUFFICES ASSUME Exclusive(protocols), event.on = "issue_comment", event.protocol = "",
                    NEW name \in DOMAIN protocols,
                    MatchTrigger(protocols[name], event) # NoCommand
             PROVE  Route(protocols, event) =
                      Routed(name, MatchTrigger(protocols[name], event))
  BY DEF CommentReachesProtocol
<1> DEFINE takers == Takers(protocols, event)
<1>1. takers = {name}
  <2>1. name \in takers
    BY DEF Takers
  <2>2. \A n \in takers : n = name
    BY <2>1, OneTaker
  <2>3. QED
    BY <2>1, <2>2
<1>2. Cardinality(takers) = 1
  BY <1>1, FS_Singleton
<1>3. (CHOOSE n \in takers : TRUE) = name
  BY <1>1
<1> HIDE DEF takers
<1>4. QED
  <2>1. Route(protocols, event) =
          Routed(CHOOSE n \in takers : TRUE,
                 MatchTrigger(protocols[CHOOSE n \in takers : TRUE], event))
    BY <1>1, <1>2 DEF Route, takers
  <2>2. QED
    BY <2>1, <1>3

-----------------------------------------------------------------------------
(* The verdict of an attempt. *)

CheckOK(check) ==
  /\ check.run.pass \in BOOLEAN
  /\ check.file.executable \in BOOLEAN
  /\ check.run.started \in BOOLEAN
  /\ check.run.exitsZero \in BOOLEAN
  /\ check.run.valid \in BOOLEAN

NodeOK(node) ==
  /\ node.found \in BOOLEAN
  /\ \E n \in Nat : node.checks = [i \in 1 .. n |-> node.checks[i]]
  /\ \A i \in DOMAIN node.checks : CheckOK(node.checks[i])

\* A verdict has the protocol's severity, and passes just if the check did.
LEMMA VerdictIsFaithful ==
  ASSUME NEW check, CheckOK(check)
  PROVE  /\ Verdict(check).onFail = check.onFail
         /\ Verdict(check).pass = Passed(check)
BY DEF CheckOK, Verdict, Runnable, Stamped, FailVerdict, Passed

\* A severity fails just if a check declared with it did not pass.
LEMMA FailureIsDeclared ==
  ASSUME NEW node, NodeOK(node), node.found, NEW severity
  PROVE  Fails(RunChecks(node).results, severity) <=>
           \E check \in Declared(node, severity) : ~Passed(check)
<1> DEFINE results == RunChecks(node).results
<1>1. results = [i \in DOMAIN node.checks |-> Verdict(node.checks[i])]
  BY DEF RunChecks
<1>2. DOMAIN results = DOMAIN node.checks
  BY <1>1
<1>3. ASSUME NEW i \in DOMAIN node.checks
      PROVE  /\ results[i].onFail = node.checks[i].onFail
             /\ results[i].pass = Passed(node.checks[i])
  BY <1>1, VerdictIsFaithful DEF NodeOK
<1> HIDE DEF results
<1>4. Fails(results, severity) <=>
        \E i \in DOMAIN node.checks :
          ~Passed(node.checks[i]) /\ node.checks[i].onFail = severity
  BY <1>2, <1>3 DEF Fails
<1>5. (\E check \in Declared(node, severity) : ~Passed(check)) <=>
        \E i \in DOMAIN node.checks :
          ~Passed(node.checks[i]) /\ node.checks[i].onFail = severity
  BY DEF Declared
<1>6. QED
  BY <1>4, <1>5 DEF results

\* The attempt at a node that is not found is not judged.
LEMMA LostNodeIsNotDone ==
  ASSUME NEW node, NEW remaining, ~node.found
  PROVE  Judge(node, remaining).process # "done"
BY DEF Judge, RunChecks

LEMMA FoundNodeIsJudged ==
  ASSUME NEW node, NodeOK(node), NEW remaining, node.found
  PROVE  /\ Judge(node, remaining) = Decide(RunChecks(node).results, remaining)
         /\ RunChecks(node).results = <<>> <=> node.checks = <<>>
<1>1. Judge(node, remaining) = Decide(RunChecks(node).results, remaining)
  BY DEF Judge, RunChecks
<1>2. RunChecks(node).results = [i \in DOMAIN node.checks |-> Verdict(node.checks[i])]
  BY DEF RunChecks
<1>3. PICK n \in Nat : node.checks = [i \in 1 .. n |-> node.checks[i]]
  BY DEF NodeOK
<1>4. RunChecks(node).results = [i \in 1 .. n |-> Verdict(node.checks[i])]
  BY <1>2, <1>3
<1>5. /\ RunChecks(node).results = <<>> <=> n = 0
      /\ node.checks = <<>> <=> n = 0
  BY <1>3, <1>4
<1>6. QED
  BY <1>1, <1>3, <1>5

\* run-checks.py and decide: a unit is done exactly when it has checks and each
\* that may send it back really ran and passed.
THEOREM DoneIsChecked ==
  ASSUME NEW node, NodeOK(node), NEW remaining \in BOOLEAN
  PROVE  DoneMeansChecked(node, remaining)
<1> DEFINE results == RunChecks(node).results
<1>1. CASE node.found
  <2>1. /\ Judge(node, remaining) = Decide(results, remaining)
        /\ results = <<>> <=> node.checks = <<>>
    BY <1>1, FoundNodeIsJudged
  <2>2. Fails(results, "iterate") <=>
          \E check \in Declared(node, "iterate") : ~Passed(check)
    BY <1>1, FailureIsDeclared
  <2> HIDE DEF results
  <2>3. Judge(node, remaining).process = "done" <=>
          results # <<>> /\ ~Fails(results, "iterate")
    BY <2>1 DEF Decide
  <2>4. QED
    BY <1>1, <2>1, <2>2, <2>3 DEF DoneMeansChecked
<1>2. CASE ~node.found
  BY <1>2, LostNodeIsNotDone DEF DoneMeansChecked
<1>3. QED
  BY <1>1, <1>2 DEF NodeOK

\* run_conclude_hook: the hook of a unit that is done hears of a blocking check
\* that did not pass, and of nothing else.
THEOREM BlockIsHeard ==
  ASSUME NEW node, NodeOK(node), NEW hook, NEW remaining \in BOOLEAN
  PROVE  BlockHeard(node, hook, remaining)
<1> DEFINE judged == Judge(node, remaining)
<1> SUFFICES ASSUME judged.process = "done", Repeats(hook)
             PROVE  Blocked(hook, judged.blocking) <=>
                      \E check \in Declared(node, "block") : ~Passed(check)
  BY DEF BlockHeard
<1>1. node.found
  BY DoneIsChecked DEF DoneMeansChecked
<1>2. judged.blocking <=> Fails(RunChecks(node).results, "block")
  BY <1>1, FoundNodeIsJudged DEF Decide
<1>3. Blocked(hook, judged.blocking) <=> judged.blocking
  BY <1>2 DEF Blocked, Repeats
<1>4. QED
  BY <1>1, <1>2, <1>3, FailureIsDeclared

-----------------------------------------------------------------------------
(* The join beside its fan-out. *)

\* A set of numbers has a least one.
LEMMA Least ==
  ASSUME NEW I \in SUBSET Nat, I # {}
  PROVE  \E m \in I : \A k \in I : m <= k
<1> DEFINE R == OpToRel(<, Nat)
<1>1. IsWellFoundedOn(R, Nat)
  BY NatLessThanWellFounded
<1>2. \A k, m \in Nat : <<k, m>> \in R <=> k < m
  BY DEF OpToRel
<1> HIDE DEF R
<1>3. PICK m \in I : \A k \in I : ~(<<k, m>> \in R)
  BY <1>1, WFMin
<1>4. \A k \in I : ~(k < m)
  BY <1>2, <1>3
<1>5. \A k \in I : m <= k
  BY <1>4
<1> QED
  BY <1>5

\* A protocol as Python has it: its root first, every child a node with an id.
IsProtocol(T) ==
  /\ <<>> \in DOMAIN T /\ T[<<>>].kind = "root"
  /\ \A p \in DOMAIN T :
       /\ p \in Seq(STRING)
       /\ \A i \in DOMAIN p : p[i] # Absent
       /\ T[p].kind \in {"root", "sequence", "fanout"} =>
            /\ T[p].children \in Seq(STRING)
            /\ \A i \in DOMAIN T[p].children : Append(p, T[p].children[i]) \in DOMAIN T

LEMMA ChildrenAre ==
  ASSUME NEW T, IsProtocol(T), NEW p \in Seq(STRING),
         NEW x \in Navigate(T)!ChildIds(p)
  PROVE  /\ p \in DOMAIN T /\ Append(p, x) \in DOMAIN T /\ x \in STRING
         /\ Parent(Append(p, x)) = p
<1>1. PICK i \in DOMAIN Navigate(T)!Children(p) : x = Navigate(T)!Children(p)[i]
  BY DEF Navigate!ChildIds
<1>2. p \in DOMAIN T /\ T[p].kind \in {"root", "sequence", "fanout"}
      /\ Navigate(T)!Children(p) = T[p].children
  BY <1>1 DEF Navigate!Children, Navigate!Containers
<1>3. Append(p, x) \in DOMAIN T /\ x \in STRING
  BY <1>1, <1>2 DEF IsProtocol
<1>4. QED
  BY <1>2, <1>3 DEF Parent

\* The join that is found is one of the root's children or of p's.
LEMMA JoinIsFound ==
  ASSUME NEW T, IsProtocol(T), NEW p \in Seq(STRING), NEW of,
         Navigate(T)!JoinsOver(p, of) # <<>>
  PROVE  LET q == Navigate(T)!JoinsOver(p, of)[1] IN
         /\ Navigate(T)!NodeKind(q) = "join" /\ T[q].of = of
         /\ \/ \E x \in Navigate(T)!ChildIds(<<>>) : q = <<x>>
            \/ \E x \in Navigate(T)!ChildIds(p) : q = Append(p, x)
<1> DEFINE roots == Navigate(T)!RootIds
           ids == Navigate(T)!Children(p)
           first == [i \in 1 .. Len(roots) |-> <<roots[i]>>]
           second == [i \in 1 .. Len(ids) |-> Navigate(T)!Child(p, ids[i])]
           candidates == first \o second
           over == {i \in DOMAIN candidates :
                      /\ Navigate(T)!NodeKind(candidates[i]) = "join"
                      /\ T[candidates[i]].of = of}
           least == CHOOSE i \in over : \A k \in over : i <= k
<1>1. Navigate(T)!JoinsOver(p, of) = IF over = {} THEN <<>> ELSE <<candidates[least]>>
  BY DEF Navigate!JoinsOver, Navigate!FirstJoin
<1>2. roots \in Seq(STRING) /\ ids \in Seq(STRING)
  BY DEF Navigate!RootIds, Navigate!Children, Navigate!Containers, IsProtocol
<1>3. /\ Len(first) = Len(roots) /\ Len(second) = Len(ids)
      /\ DOMAIN candidates = 1 .. Len(roots) + Len(ids)
      /\ \A i \in 1 .. Len(roots) : candidates[i] = <<roots[i]>>
      /\ \A i \in Len(roots) + 1 .. Len(roots) + Len(ids) :
           candidates[i] = Navigate(T)!Child(p, ids[i - Len(roots)])
  BY <1>2
<1> HIDE DEF first, second, candidates
<1>4. over # {} /\ over \in SUBSET Nat
  <2>1. over # {}
    BY <1>1
  <2>2. Len(roots) + Len(ids) \in Nat
    BY <1>2
  <2>3. \A i \in DOMAIN candidates : i \in Nat
    BY <1>3, <2>2
  <2> QED
    BY <2>1, <2>3
<1>5. \E i \in over : \A k \in over : i <= k
  BY <1>4, Least
<1>6. least \in over
  BY <1>5
<1> HIDE DEF least
<1>7. Navigate(T)!JoinsOver(p, of)[1] = candidates[least]
  BY <1>1, <1>4
<1>8. CASE least \in 1 .. Len(roots)
  <2>1. roots[least] \in Navigate(T)!ChildIds(<<>>)
    BY <1>2, <1>8 DEF Navigate!RootIds, Navigate!ChildIds
  <2> QED
    BY <1>3, <1>6, <1>7, <1>8, <2>1
<1>9. CASE least \in Len(roots) + 1 .. Len(roots) + Len(ids)
  <2>1. least - Len(roots) \in 1 .. Len(ids)
    BY <1>2, <1>9
  <2>2. ids[least - Len(roots)] \in Navigate(T)!ChildIds(p)
    BY <1>2, <2>1 DEF Navigate!ChildIds
  <2> QED
    BY <1>3, <1>6, <1>7, <1>9, <2>2 DEF Navigate!Child
<1>10. QED
  BY <1>2, <1>3, <1>6, <1>8, <1>9

\* lib.validate_protocol: in a protocol the lint accepts, whose fan-outs have different
\* ids, the engine finds no join of the root for a nested fan-out: the join that closes
\* it is beside it, whatever the protocol.
THEOREM JoinsAreBeside ==
  ASSUME NEW T, IsProtocol(T), NEW declared, NEW schema
  PROVE  JoinClosesItsFanout(T, declared, schema)
<1> SUFFICES ASSUME Lint(T, declared, schema).ok, DistinctFanouts(T),
                    NEW p \in Fanouts(T), Len(p) > 1,
                    Navigate(T)!JoinsOver(Parent(p), p[Len(p)]) # <<>>
             PROVE  Parent(Navigate(T)!JoinsOver(Parent(p), p[Len(p)])[1]) = Parent(p)
  BY DEF JoinClosesItsFanout
<1> DEFINE q == Navigate(T)!JoinsOver(Parent(p), p[Len(p)])[1]
<1>1. ValidateProtocol(T)
  BY DEF Lint
<1>2. /\ p \in DOMAIN T /\ p \in Seq(STRING) /\ T[p].kind = "fanout"
      /\ Parent(p) \in Seq(STRING) /\ p[Len(p)] # Absent /\ Len(p) \in Nat
  BY DEF Fanouts, IsProtocol, Parent
<1>3. /\ Navigate(T)!NodeKind(q) = "join" /\ T[q].of = p[Len(p)]
      /\ \/ \E x \in Navigate(T)!ChildIds(<<>>) : q = <<x>>
         \/ \E x \in Navigate(T)!ChildIds(Parent(p)) : q = Append(Parent(p), x)
  BY <1>2, JoinIsFound
<1> HIDE DEF q
<1>4. CASE \E x \in Navigate(T)!ChildIds(<<>>) : q = <<x>>
  <2>1. PICK x \in Navigate(T)!ChildIds(<<>>) : q = Append(<<>>, x)
    BY <1>4
  <2>2. <<>> \in Seq(STRING) /\ <<>> \in Sequences(T)
    BY DEF IsProtocol, Sequences
  <2>3. T[q].kind = "join" /\ Parent(q) = <<>>
    BY <1>3, <2>1, <2>2, ChildrenAre DEF Navigate!NodeKind, Navigate!None
  <2>4. T[q].of \in SiblingFanouts(T, q)
    <3>1. StateOK(T, q)
      BY <1>1, <2>1, <2>2 DEF ValidateProtocol
    <3>2. T[q].of \in {Absent} \union SiblingFanouts(T, q)
      BY <2>3, <3>1 DEF StateOK
    <3> QED
      BY <1>2, <1>3, <3>2
  <2>5. PICK id \in Navigate(T)!ChildIds(<<>>) :
          id = p[Len(p)] /\ T[Append(<<>>, id)].kind = "fanout"
    BY <1>3, <2>3, <2>4 DEF SiblingFanouts, SiblingIds
  <2>6. Append(<<>>, id) \in DOMAIN T /\ Append(<<>>, id) = <<id>>
    <3>1. Append(<<>>, id) \in DOMAIN T
      BY <2>2, <2>5, ChildrenAre
    <3>2. Append(<<>>, id) = <<id>>
      OBVIOUS
    <3> QED
      BY <3>1, <3>2
  <2>7. <<id>> = p
    <3>1. <<id>> \in Fanouts(T) /\ <<id>>[Len(<<id>>)] = p[Len(p)]
      BY <2>5, <2>6 DEF Fanouts
    <3> QED
      BY <3>1 DEF DistinctFanouts
  <2>8. Len(<<id>>) = 1
    OBVIOUS
  <2>9. Len(p) = 1
    BY <2>7, <2>8
  <2> QED
    BY <1>2, <2>9
<1>5. CASE \E x \in Navigate(T)!ChildIds(Parent(p)) : q = Append(Parent(p), x)
  BY <1>2, <1>5, ChildrenAre DEF q
<1>6. QED
  BY <1>3, <1>4, <1>5 DEF q

-----------------------------------------------------------------------------
(* The names of inputs, for any protocol. *)

\* The extremes of numbers are among them.
LEMMA MinIsIn ==
  ASSUME NEW I \in SUBSET Nat, I # {}
  PROVE  Min(I) \in I
<1>1. \E m \in I : \A k \in I : m <= k
  BY Least
<1>2. QED
  BY <1>1 DEF Min

LEMMA MaxIsIn ==
  ASSUME NEW n \in Nat, NEW I \in SUBSET (0 .. n), I # {}
  PROVE  Max(I) \in I /\ \A k \in I : k <= Max(I)
<1> DEFINE R == {n - k : k \in I}
<1>1. R \in SUBSET Nat /\ R # {}
  <2>1. \A k \in I : n - k \in Nat
    OBVIOUS
  <2>2. R \in SUBSET Nat
    BY <2>1
  <2>3. R # {}
    OBVIOUS
  <2> QED
    BY <2>2, <2>3
<1>2. PICK r \in R : \A k \in R : r <= k
  BY <1>1, Least
<1>3. PICK m \in I : r = n - m
  BY <1>2
<1>4. \A k \in I : m >= k
  <2> SUFFICES ASSUME NEW k \in I  PROVE m >= k
    OBVIOUS
  <2>1. n - k \in R
    OBVIOUS
  <2>2. n - m <= n - k
    BY <1>2, <1>3, <2>1
  <2> QED
    BY <2>2
<1>5. \E x \in I : \A k \in I : x >= k
  BY <1>4
<1>6. Max(I) \in I /\ \A k \in I : Max(I) >= k
  BY <1>5 DEF Max
<1>7. QED
  BY <1>6

\* The ids of a file's path, but for the first one in a protocol of a single phase.
Dropped == IF IsMultiphase THEN 0 ELSE 1

LEMMA PathsAreTails ==
  ASSUME NEW S, NEW u \in Seq(S), u # <<>>
  PROVE  /\ Len(StatePath(u)) = Len(u) - Dropped
         /\ \A i \in 1 .. Len(u) - Dropped : StatePath(u)[i] = u[i + Dropped]
<1>1. CASE IsMultiphase
  BY <1>1 DEF StatePath, Dropped
<1>2. CASE ~IsMultiphase
  <2>1. /\ Len(Tail(u)) = Len(u) - 1
        /\ \A i \in 1 .. Len(u) - 1 : Tail(u)[i] = u[i + 1]
    OBVIOUS
  <2> QED
    BY <1>2, <2>1 DEF StatePath, Dropped
<1>3. QED
  BY <1>1, <1>2

\* Two fan-outs among its children make a protocol one of several phases.
LEMMA TwoPhases ==
  ASSUME NEW a \in ChildIds(<<>>), NEW b \in ChildIds(<<>>), a # b,
         NodeKind(<<a>>) = "fanout", NodeKind(<<b>>) = "fanout"
  PROVE  IsMultiphase
<1>1. IsFiniteSet(PhaseIds)
  <2>1. /\ Children(<<>>) \in Seq(STRING)
        /\ DOMAIN Children(<<>>) = 1 .. Len(Children(<<>>)) /\ Len(Children(<<>>)) \in Nat
    BY TreeAssumption DEF Children
  <2>2. IsFiniteSet(1 .. Len(Children(<<>>)))
    BY <2>1, FS_Interval
  <2>3. Children(<<>>) \in Surjection(1 .. Len(Children(<<>>)), ChildIds(<<>>))
    BY <2>1 DEF ChildIds, Surjection
  <2>4. IsFiniteSet(ChildIds(<<>>))
    BY <2>2, <2>3, FS_Surjection
  <2> QED
    BY <2>4, FS_Subset DEF PhaseIds
<1>2. a \in PhaseIds /\ b \in PhaseIds
  BY DEF PhaseIds
<1>3. Cardinality({a} \union {b}) <= Cardinality(PhaseIds)
  <2>1. {a} \union {b} \in SUBSET PhaseIds
    BY <1>2
  <2> QED
    BY <1>1, <2>1, FS_Subset
<1>4. Cardinality({a} \union {b}) = 1 + 1
  <2>1. IsFiniteSet({a}) /\ Cardinality({a}) = 1
    BY FS_Singleton
  <2> QED
    BY <2>1, FS_AddElement
<1>5. Cardinality(PhaseIds) \in Nat
  BY <1>1, FS_CardinalityType
<1>6. \A m \in Nat : 1 + 1 <= m => m > 1
  OBVIOUS
<1>7. Cardinality(PhaseIds) > 1
  BY <1>3, <1>4, <1>5, <1>6
<1>8. QED
  BY <1>7 DEF IsMultiphase

\* What is above a node lists the next id on the way to it.
LEMMA NodeAbove ==
  ASSUME NEW p \in DOMAIN Tree, NEW k \in 0 .. Len(p) - 1
  PROVE  Prefix(p, k) \in DOMAIN Tree /\ p[k + 1] \in ChildIds(Prefix(p, k))
<1> DEFINE above == SubSeq(p, 1, k)
<1>1. /\ above \in DOMAIN Tree /\ Tree[above].kind \in Containers
      /\ \E i \in DOMAIN Tree[above].children : Tree[above].children[i] = p[k + 1]
  BY TreeAssumption
<1> HIDE DEF above
<1>2. p[k + 1] \in ChildIds(above)
  BY <1>1 DEF ChildIds, Children
<1>3. QED
  BY <1>1, <1>2 DEF above, Prefix

\* A child of a node is a node, with an id.
LEMMA ChildIsNode ==
  ASSUME NEW s \in DOMAIN Tree, NEW id \in ChildIds(s)
  PROVE  /\ Append(s, id) \in DOMAIN Tree /\ id \in STRING
         /\ s \in Seq(STRING) /\ Append(s, id) \in Seq(STRING)
<1>1. s \in Seq(STRING)
  BY TreeAssumption
<1>2. Tree[s].kind \in Containers
  BY DEF ChildIds, Children
<1>3. QED
  BY <1>1, <1>2, TreeAssumption DEF ChildIds, Children

\* What is found in scope s: the output of a child, of a leg of a static fan-out
\* among them, or of a child of such a leg.
LEMMA FoundIs ==
  ASSUME NEW s \in DOMAIN Tree, NEW from, Hits(s, from) # {}
  PROVE  /\ ~IsDynamic(s)
         /\ \E id \in ChildIds(s) :
              \/ id = from /\ FoundIn(s, from).path = StatePath(Child(s, id))
              \/ LET c == Child(s, id)
                     l == Child(c, from) IN
                 /\ NodeKind(c) = "fanout" /\ ~IsDynamic(c) /\ from \in ChildIds(c)
                 /\ \/ FoundIn(s, from).path = StatePath(l)
                    \/ /\ NodeKind(l) = "sequence"
                       /\ \E last : FoundIn(s, from).path = StatePath(Child(l, last))
<1>1. ~IsDynamic(s) /\ Named(s) = Children(s)
  BY DEF Hits, Named
<1>2. /\ Children(s) \in Seq(STRING) /\ DOMAIN Children(s) \in SUBSET Nat
  <2>1. CASE Tree[s].kind \in Containers
    BY <2>1, TreeAssumption DEF Children
  <2>2. CASE Tree[s].kind \notin Containers
    BY <2>2 DEF Children
  <2> QED
    BY <2>1, <2>2
<1> DEFINE i == Min(Hits(s, from))
           id == Children(s)[i]
           c == Child(s, id)
           l == Child(c, from)
<1>3. Hits(s, from) \in SUBSET Nat
  BY <1>1, <1>2 DEF Hits
<1>4. i \in Hits(s, from)
  BY <1>3, MinIsIn
<1>5. /\ i \in DOMAIN Children(s) /\ id \in ChildIds(s)
      /\ id = from \/ from \in StaticLegs(c)
  BY <1>1, <1>4 DEF Hits, Hit, ChildIds
<1>6. FoundIn(s, from) = IF id = from THEN Sibling(s, from) ELSE LegOf(c, from)
  BY <1>1 DEF FoundIn
<1> HIDE DEF i, id
<1>7. CASE id = from
  <2>1. FoundIn(s, from).path = StatePath(Child(s, id))
    BY <1>6, <1>7 DEF Sibling, Written, Output
  <2> QED
    BY <1>1, <1>5, <1>7, <2>1
<1>8. CASE id # from
  <2>1. /\ NodeKind(c) = "fanout" /\ from \in {Named(c)[k] : k \in DOMAIN Named(c)}
    BY <1>5, <1>8 DEF StaticLegs
  <2>2. ~IsDynamic(c) /\ from \in ChildIds(c)
    BY <2>1 DEF Named, ChildIds
  <2>3. FoundIn(s, from).path = StatePath(LegOutput(l))
    BY <1>6, <1>8 DEF LegOf, Output
  <2>4. CASE NodeKind(l) = "sequence"
    <3>1. Tree[l].kind = "sequence" /\ l \in DOMAIN Tree
      BY <2>4 DEF NodeKind, None
    <3> DEFINE last == Children(l)[Len(Children(l))]
    <3>2. LegOutput(l) = Child(l, last)
      BY <2>4 DEF LegOutput
    <3>3. QED
      BY <1>1, <1>5, <2>1, <2>2, <2>3, <2>4, <3>2
  <2>5. CASE NodeKind(l) # "sequence"
    <3>1. FoundIn(s, from).path = StatePath(l)
      BY <2>3, <2>5 DEF LegOutput
    <3> QED
      BY <1>1, <1>5, <2>1, <2>2, <3>1
  <2> QED
    BY <2>4, <2>5
<1>9. QED
  BY <1>7, <1>8

\* Where one file's path extends another's, the nodes they belong to do, but for the
\* first id in a protocol of a single phase.
LEMMA PathsCoincide ==
  ASSUME NEW S, NEW u \in Seq(S), NEW p \in Seq(S), u # <<>>, NEW k \in 1 .. Len(p) - 1,
         Len(StatePath(u)) > Len(StatePath(Prefix(p, k))),
         Prefix(StatePath(u), Len(StatePath(Prefix(p, k)))) = StatePath(Prefix(p, k))
  PROVE  /\ Len(u) > k
         /\ \A i \in 1 + Dropped .. k : u[i] = p[i]
         /\ StatePath(u)[Len(StatePath(Prefix(p, k))) + 1] = u[k + 1]
<1> DEFINE v == Prefix(p, k)
<1>1. /\ v \in Seq(S) /\ Len(v) = k /\ v # <<>> /\ \A i \in 1 .. k : v[i] = p[i]
  BY DEF Prefix
<1>2. Dropped \in 0 .. 1
  BY DEF Dropped
<1> HIDE DEF v
<1>3. /\ Len(StatePath(v)) = k - Dropped
      /\ \A i \in 1 .. k - Dropped : StatePath(v)[i] = p[i + Dropped]
  <2>1. /\ Len(StatePath(v)) = k - Dropped
        /\ \A i \in 1 .. k - Dropped : StatePath(v)[i] = v[i + Dropped]
    BY <1>1, PathsAreTails
  <2> QED
    BY <1>1, <1>2, <2>1
<1>4. /\ Len(StatePath(u)) = Len(u) - Dropped
      /\ \A i \in 1 .. Len(u) - Dropped : StatePath(u)[i] = u[i + Dropped]
  BY PathsAreTails
<1>5. /\ Len(StatePath(u)) > Len(StatePath(v))
      /\ SubSeq(StatePath(u), 1, Len(StatePath(v))) = StatePath(v)
  BY DEF v, Prefix
<1>6. StatePath(u) \in Seq(S)
  BY DEF StatePath
<1>7. \A i \in 1 .. k - Dropped : StatePath(u)[i] = StatePath(v)[i]
  <2> DEFINE w == StatePath(u)
  <2>1. w \in Seq(S) /\ k - Dropped \in 0 .. Len(w)
    BY <1>2, <1>3, <1>5, <1>6
  <2> HIDE DEF w
  <2>2. \A i \in 1 .. k - Dropped : SubSeq(w, 1, k - Dropped)[i] = w[i]
    BY <1>2, <2>1
  <2> QED
    BY <1>3, <1>5, <2>2 DEF w
<1>8. Len(u) > k
  BY <1>2, <1>3, <1>4, <1>5
<1>9. \A i \in 1 + Dropped .. k : u[i] = p[i]
  <2> SUFFICES ASSUME NEW i \in 1 + Dropped .. k  PROVE u[i] = p[i]
    OBVIOUS
  <2>1. i - Dropped \in 1 .. k - Dropped /\ i - Dropped \in 1 .. Len(u) - Dropped
        /\ (i - Dropped) + Dropped = i
    BY <1>2, <1>8
  <2> QED
    BY <1>3, <1>4, <1>7, <2>1
<1>10. StatePath(u)[(k - Dropped) + 1] = u[k + 1]
  <2>1. (k - Dropped) + 1 \in 1 .. Len(u) - Dropped /\ ((k - Dropped) + 1) + Dropped = k + 1
    BY <1>2, <1>8
  <2> QED
    BY <1>4, <2>1
<1>11. QED
  BY <1>3, <1>8, <1>9, <1>10 DEF v

\* An input that some scope around its consumer knows is never read from another leg
\* of a dynamic fan-out around it, though the units of all legs have the same ids.
\* One that no scope knows names no unit there, and its bare name may be anything.
THEOREM KnownInputsAreOwn ==
  ASSUME NEW p \in Consumers, NEW from, Knowing(p, from) # {}
  PROVE  ReadsOwnLeg(p, from)
<1>1. p \in DOMAIN Tree /\ p \in Seq(STRING) /\ Len(p) \in Nat /\ p # <<>> /\ Len(p) > 0
  <2>1. p \in DOMAIN Tree /\ p # <<>>
    BY DEF Consumers, NodeKind, None
  <2>2. p \in Seq(STRING)
    BY <2>1, TreeAssumption
  <2> QED
    BY <2>1, <2>2
<1>0. /\ \A k \in 1 .. Len(p) - 1 : Len(p) > 1 /\ Len(p) # 1
      /\ Prefix(p, 0) = <<>> /\ Prefix(p, 1) = <<p[1]>>
  <2>1. \A k \in 1 .. Len(p) - 1 : Len(p) > 1 /\ Len(p) # 1
    <3>1. \A n \in Nat : \A k \in 1 .. n - 1 : n > 1 /\ n # 1
      OBVIOUS
    <3> QED
      BY <1>1, <3>1
  <2>2. Prefix(p, 0) = <<>>
    BY <1>1 DEF Prefix
  <2>3. /\ Prefix(p, 1) \in Seq(STRING) /\ Len(Prefix(p, 1)) = 1
        /\ Prefix(p, 1)[1] = p[1]
    BY <1>1 DEF Prefix
  <2> QED
    BY <2>1, <2>2, <2>3
<1> SUFFICES ASSUME NEW k \in 1 .. Len(p) - 1, IsDynamic(Prefix(p, k)),
                    Len(Resolved(p, from).path) > Len(StatePath(Prefix(p, k))),
                    Prefix(Resolved(p, from).path, Len(StatePath(Prefix(p, k)))) =
                      StatePath(Prefix(p, k))
             PROVE  Resolved(p, from).path[Len(StatePath(Prefix(p, k))) + 1] = p[k + 1]
  BY DEF ReadsOwnLeg
<1> DEFINE m == Max(Knowing(p, from))
           s == Prefix(p, m)
<1>2. /\ m \in 0 .. Len(p) - 1 /\ Hits(s, from) # {}
      /\ \A i \in 0 .. Len(p) - 1 : Hits(Prefix(p, i), from) # {} => i <= m
  <2>1. Knowing(p, from) \in SUBSET (0 .. Len(p) - 1) /\ Len(p) - 1 \in Nat
    BY <1>1 DEF Knowing
  <2>2. m \in Knowing(p, from) /\ \A i \in Knowing(p, from) : i <= m
    BY <2>1, MaxIsIn
  <2> QED
    BY <2>2 DEF Knowing
<1>3. Resolved(p, from) = FoundIn(s, from)
  <2>1. Len(p) > 1 /\ Len(p) # 1
    BY <1>0
  <2>2. Resolved(p, from) = Nearest(p, from)
    BY <2>1 DEF Resolved
  <2> QED
    BY <2>2 DEF Nearest
<1> HIDE DEF m
<1>4. /\ s \in DOMAIN Tree /\ s \in Seq(STRING) /\ Len(s) = m
      /\ \A i \in 1 .. m : s[i] = p[i]
  <2>1. m \in 0 .. Len(p) - 1 /\ SubSeq(p, 1, m) \in DOMAIN Tree
    BY <1>1, <1>2, TreeAssumption
  <2> QED
    BY <1>1, <2>1 DEF Prefix
<1> HIDE DEF s
<1>5. ~IsDynamic(s)
  BY <1>2, <1>4, FoundIs
<1>6. PICK id \in ChildIds(s) :
        \/ id = from /\ FoundIn(s, from).path = StatePath(Child(s, id))
        \/ LET c == Child(s, id)
               l == Child(c, from) IN
           /\ NodeKind(c) = "fanout" /\ ~IsDynamic(c) /\ from \in ChildIds(c)
           /\ \/ FoundIn(s, from).path = StatePath(l)
              \/ /\ NodeKind(l) = "sequence"
                 /\ \E last : FoundIn(s, from).path = StatePath(Child(l, last))
  BY <1>2, <1>4, FoundIs
<1> DEFINE c == Child(s, id)
           l == Child(c, from)
<1>7. c \in DOMAIN Tree /\ id \in STRING
  BY <1>4, <1>6, ChildIsNode DEF Child
<1>8. k # m
  BY <1>2, <1>5 DEF s
<1>9. CASE id = from /\ FoundIn(s, from).path = StatePath(c)
  <2>1. c \in Seq(STRING) /\ Len(c) = m + 1 /\ c # <<>> /\ \A i \in 1 .. m : c[i] = p[i]
    BY <1>2, <1>4, <1>7 DEF Child
  <2> HIDE DEF c
  <2>2. /\ Len(c) > k
        /\ Resolved(p, from).path[Len(StatePath(Prefix(p, k))) + 1] = c[k + 1]
    BY <1>1, <1>3, <1>9, <2>1, PathsCoincide
  <2>3. k + 1 \in 1 .. m
    BY <1>2, <1>8, <2>1, <2>2
  <2> QED
    BY <2>1, <2>2, <2>3
<1>10. ASSUME NodeKind(c) = "fanout", ~IsDynamic(c), from \in ChildIds(c),
              NEW S, NEW u \in Seq(S), p \in Seq(S), FoundIn(s, from).path = StatePath(u),
              Len(u) \in m + 2 .. m + 3, Len(u) = m + 3 => NodeKind(l) = "sequence",
              \A i \in 1 .. m : u[i] = p[i], u[m + 1] = id, u[m + 2] = from
       PROVE  Resolved(p, from).path[Len(StatePath(Prefix(p, k))) + 1] = p[k + 1]
  <2>1. /\ Len(u) > k /\ \A i \in 1 + Dropped .. k : u[i] = p[i]
        /\ Resolved(p, from).path[Len(StatePath(Prefix(p, k))) + 1] = u[k + 1]
    <3>1. u # <<>>
      BY <1>2, <1>10
    <3> QED
      BY <1>3, <1>10, <3>1, PathsCoincide
  <2>2. CASE k < m
    <3>1. k + 1 \in 1 .. m
      BY <1>2, <2>2
    <3> QED
      BY <1>10, <2>1, <3>1
  <2>3. k < m \/ k \in m + 1 .. m + 2
    BY <1>2, <1>8, <1>10, <2>1
  <2>4. CASE k \in m + 1 .. m + 2
    <3> SUFFICES FALSE
      OBVIOUS
    <3>1. u[1] = p[1]
      <4>1. CASE m > 0
        BY <1>2, <1>10, <4>1
      <4>2. CASE Dropped = 0
        <5>1. 1 \in 1 + Dropped .. k
          BY <4>2
        <5> QED
          BY <2>1, <5>1
      <4>3. CASE m = 0 /\ Dropped # 0
        <5> SUFFICES ASSUME u[1] # p[1]  PROVE FALSE
          OBVIOUS
        <5>1. id # p[1] /\ ~IsMultiphase /\ s = <<>> /\ Dropped = 1
          BY <1>2, <1>4, <1>10, <4>3 DEF Dropped
        <5>2. <<p[1]>> \in DOMAIN Tree /\ p[1] \in ChildIds(<<>>) /\ Prefix(p, 1) = <<p[1]>>
          <6>1. 0 \in 0 .. Len(p) - 1 /\ 1 \in 0 .. Len(p) - 1 /\ 0 + 1 = 1
            BY <1>1
          <6>2. p[0 + 1] \in ChildIds(Prefix(p, 0)) /\ Prefix(p, 1) \in DOMAIN Tree
            BY <1>1, <6>1, NodeAbove
          <6> QED
            BY <1>0, <6>1, <6>2
        <5>3. c = <<id>>
          BY <5>1 DEF Child
        <5>4. NodeKind(<<p[1]>>) # "fanout"
          BY <1>6, <1>10, <5>1, <5>2, <5>3, TwoPhases
        <5>5. k = 2
          BY <2>4, <4>3, <5>2, <5>4 DEF IsDynamic
        <5>6. p[2] = from
          <6>1. 2 \in 1 + Dropped .. k
            BY <5>1, <5>5
          <6> QED
            BY <1>10, <2>1, <4>3, <6>1
        <5>7. p[2] \in ChildIds(<<p[1]>>)
          <6>1. 1 \in 0 .. Len(p) - 1 /\ 1 + 1 = 2
            BY <1>1, <5>5
          <6>2. p[1 + 1] \in ChildIds(Prefix(p, 1))
            BY <1>1, <6>1, NodeAbove
          <6> QED
            BY <5>2, <6>1, <6>2
        <5>8. Hits(Prefix(p, 1), from) # {}
          <6>1. Named(<<p[1]>>) = Children(<<p[1]>>)
            BY <5>4 DEF Named, IsDynamic
          <6> QED
            BY <5>2, <5>6, <5>7, <6>1 DEF Hits, Hit, ChildIds
        <5> QED
          BY <1>2, <4>3, <5>5, <5>8
      <4> QED
        BY <1>2, <4>1, <4>2, <4>3
    <3>2. \A i \in 1 .. k : u[i] = p[i]
      <4>1. \A i \in 1 .. k : i = 1 \/ i \in 1 + Dropped .. k
        BY DEF Dropped
      <4> QED
        BY <2>1, <3>1, <4>1
    <3>3. c = Prefix(p, m + 1)
      <4>1. Len(c) = m + 1 /\ c \in Seq(STRING) /\ \A i \in 1 .. m : c[i] = p[i]
        BY <1>2, <1>4, <1>7 DEF Child
      <4>2. c[m + 1] = p[m + 1]
        BY <1>2, <1>4, <1>7, <1>10, <2>4, <3>2 DEF Child
      <4> QED
        BY <1>1, <1>2, <4>1, <4>2 DEF Prefix
    <3>4. CASE k = m + 1
      BY <1>10, <3>3, <3>4
    <3>5. CASE k = m + 2
      <4>1. Prefix(p, m + 2) = l
        <5>1. p[m + 2] = from /\ Len(p) >= m + 2
          BY <1>1, <1>2, <1>10, <3>2, <3>5
        <5>2. Append(Prefix(p, m + 1), p[m + 2]) = Prefix(p, m + 2)
          BY <1>1, <1>2, <5>1 DEF Prefix
        <5> QED
          BY <3>3, <5>1, <5>2 DEF Child
      <4>2. NodeKind(l) = "sequence"
        BY <1>2, <1>10, <2>1, <3>5
      <4> QED
        BY <3>5, <4>1, <4>2 DEF IsDynamic
    <3>6. k = m + 1 \/ k = m + 2
      BY <1>2, <2>4
    <3> QED
      BY <3>4, <3>5, <3>6
  <2> QED
    BY <2>2, <2>3, <2>4
<1>11. CASE /\ NodeKind(c) = "fanout" /\ ~IsDynamic(c) /\ from \in ChildIds(c)
            /\ \/ FoundIn(s, from).path = StatePath(l)
               \/ /\ NodeKind(l) = "sequence"
                  /\ \E last : FoundIn(s, from).path = StatePath(Child(l, last))
  <2>1. from \in STRING /\ c \in Seq(STRING) /\ l \in Seq(STRING)
    BY <1>7, <1>11, ChildIsNode DEF Child
  <2>2. /\ Len(l) = m + 2 /\ \A i \in 1 .. m : l[i] = p[i]
        /\ l[m + 1] = id /\ l[m + 2] = from
    BY <1>2, <1>4, <1>7, <2>1 DEF Child
  <2> HIDE DEF c, l
  <2>3. CASE FoundIn(s, from).path = StatePath(l)
    BY <1>1, <1>2, <1>10, <1>11, <2>1, <2>2, <2>3
  <2>4. CASE /\ NodeKind(l) = "sequence"
             /\ \E last : FoundIn(s, from).path = StatePath(Child(l, last))
    <3>1. PICK last : FoundIn(s, from).path = StatePath(Append(l, last))
      BY <2>4 DEF Child
    <3> DEFINE S == STRING \union {last}
               u == Append(l, last)
    <3>2. l \in Seq(S) /\ p \in Seq(S) /\ last \in S
      BY <1>1, <2>1
    <3> HIDE DEF S
    <3>3. /\ u \in Seq(S) /\ Len(u) = m + 3 /\ \A i \in 1 .. m : u[i] = p[i]
          /\ u[m + 1] = id /\ u[m + 2] = from
      BY <1>2, <2>2, <3>2
    <3> HIDE DEF u
    <3>4. Len(u) \in m + 2 .. m + 3 /\ FoundIn(s, from).path = StatePath(u)
      BY <1>2, <3>1, <3>3 DEF u
    <3> QED
      BY <1>10, <1>11, <2>4, <3>2, <3>3, <3>4
  <2> QED
    BY <1>11, <2>3, <2>4
<1>12. QED
  BY <1>6, <1>9, <1>11

\* No leg of a dynamic fan-out is a fan-out or ends in a gate, whose answers are no
\* evidence.
EndsInEvidence(fanout) == \A l \in ChildIds(fanout) :
  /\ NodeKind(Child(fanout, l)) # "fanout"
  /\ NodeKind(LegOutput(Child(fanout, l))) # "gate"

\* The last child of a sequence is the unit whose output is the leg's.
LEMMA LastIsOutput ==
  ASSUME NEW leg \in DOMAIN Tree, leg # <<>>, NodeKind(leg) # "fanout",
         NEW q \in DOMAIN Tree, q # <<>>, ParentPath(q) = leg, NextSibling(q) = None
  PROVE  LegOutput(leg) = q
<1>1. q \in Seq(STRING) /\ Len(q) \in Nat /\ Len(q) > 0
  <2>1. q \in Seq(STRING)
    BY TreeAssumption
  <2> QED
    BY <2>1
<1>2. Prefix(q, Len(q) - 1) = leg /\ Len(q) - 1 \in 0 .. Len(q) - 1 /\ (Len(q) - 1) + 1 = Len(q)
  BY <1>1 DEF ParentPath, Prefix
<1>3. LastId(q) \in ChildIds(leg)
  <2>1. q[(Len(q) - 1) + 1] \in ChildIds(Prefix(q, Len(q) - 1))
    BY <1>2, NodeAbove
  <2> QED
    BY <1>2, <2>1 DEF LastId
<1>4. q = Append(leg, LastId(q))
  BY <1>1 DEF ParentPath, LastId
<1>5. Tree[leg].kind \in Containers /\ Children(leg) = Tree[leg].children
  BY <1>3 DEF ChildIds, Children
<1>6. NodeKind(leg) = "sequence"
  BY <1>5, TreeAssumption DEF NodeKind, Containers
<1>7. Children(leg) \in Seq(STRING \ {None})
  BY <1>5, TreeAssumption
<1> DEFINE ids == Children(leg)
<1>8. Index(q) \in DOMAIN ids /\ ids[Index(q)] = LastId(q)
  <2>1. \E i \in DOMAIN ids : ids[i] = LastId(q)
    BY <1>3 DEF ChildIds
  <2> QED
    BY <2>1 DEF Index
<1>9. Index(q) = Len(ids)
  <2>1. ~(Index(q) < Len(ids))
    <3> SUFFICES ASSUME Index(q) < Len(ids)  PROVE FALSE
      OBVIOUS
    <3>1. NextSibling(q) = ids[1 + Index(q)]
      BY <1>6 DEF NextSibling
    <3>2. ids[1 + Index(q)] \in STRING \ {None}
      BY <1>7, <1>8
    <3> QED
      BY <3>1, <3>2
  <2> QED
    BY <1>7, <1>8, <2>1
<1>10. QED
  BY <1>4, <1>6, <1>8, <1>9 DEF LegOutput, Child

\* A merge of the evidence of a dynamic fan-out reads of every leg the file that its
\* last unit writes, and that once.
THEOREM MergesReadEveryLeg ==
  ASSUME NEW fanout \in DOMAIN Tree, EndsInEvidence(fanout)
  PROVE  MergesWhatLegsWrote(fanout)
<1> SUFFICES ASSUME NEW l \in ChildIds(fanout), NEW q \in Producers,
                    \/ q = Child(fanout, l)
                    \/ q # <<>> /\ ParentPath(q) = Child(fanout, l) /\ NextSibling(q) = None
             PROVE  {row \in Rows(fanout) : row.leg = l} = {[leg |-> l, evidence |-> Written(q)]}
  BY DEF MergesWhatLegsWrote
<1> DEFINE leg == Child(fanout, l)
<1>1. leg \in DOMAIN Tree /\ leg # <<>> /\ NodeKind(leg) # "fanout"
  BY ChildIsNode DEF Child, EndsInEvidence
<1>2. q \in DOMAIN Tree /\ q # <<>> /\ NodeKind(q) \in {"agent", "gate", "merge"}
  BY DEF Producers, NodeKind, None
<1>3. LegOutput(leg) = q
  <2>1. CASE q = leg
    BY <1>2, <2>1 DEF LegOutput
  <2>2. CASE q # <<>> /\ ParentPath(q) = leg /\ NextSibling(q) = None
    BY <1>1, <1>2, <2>2, LastIsOutput
  <2> QED
    BY <2>1, <2>2
<1>4. Written(q) = Output(StatePath(LegOutput(leg)), "evidence")
  <2>1. NodeKind(q) # "gate"
    BY <1>3 DEF EndsInEvidence
  <2> QED
    BY <1>3, <2>1 DEF Written
<1>5. \A row : row \in Rows(fanout) /\ row.leg = l <=>
               row = [leg |-> l, evidence |-> Output(StatePath(LegOutput(leg)), "evidence")]
  BY DEF Rows
<1>6. QED
  BY <1>4, <1>5

\* Nothing in one scope around p but one node is called `from` or has a leg of that
\* name.  Such a leg is over by then, has another name than its fan-out and ends in no
\* gate.
OneMeaning(p, from) == \A k \in 0 .. Len(p) - 1 :
  /\ \A i, j \in Hits(Prefix(p, k), from) : i = j
  /\ \A id \in ChildIds(Prefix(p, k)) :
       LET c == Child(Prefix(p, k), id) IN
       from \in StaticLegs(c) =>
         id # from /\ Before(c, p) /\ NodeKind(LegOutput(Child(c, from))) # "gate"

\* The one thing of that name in the innermost scope is found.
LEMMA NearestIs ==
  ASSUME NEW p \in DOMAIN Tree, NEW from, OneMeaning(p, from),
         NEW k \in 0 .. Len(p) - 1, k = Max(Knowing(p, from)), NEW i \in Hits(Prefix(p, k), from)
  PROVE  LET id == Children(Prefix(p, k))[i] IN
         Nearest(p, from) = IF id = from THEN Sibling(Prefix(p, k), from)
                            ELSE LegOf(Child(Prefix(p, k), id), from)
<1> DEFINE s == Prefix(p, k)
<1>1. Named(s) = Children(s) /\ i \in DOMAIN Children(s)
  BY DEF Hits, Named
<1>2. s \in DOMAIN Tree /\ Children(s) \in Seq(STRING)
  <2>1. s \in DOMAIN Tree
    BY NodeAbove
  <2>2. CASE Tree[s].kind \in Containers
    BY <2>1, <2>2, TreeAssumption DEF Children
  <2>3. CASE Tree[s].kind \notin Containers
    BY <2>1, <2>3 DEF Children
  <2> QED
    BY <2>1, <2>2, <2>3
<1> HIDE DEF s
<1>3. Hits(s, from) \in SUBSET Nat
  BY <1>1, <1>2 DEF Hits
<1>4. Min(Hits(s, from)) = i
  <2>1. Min(Hits(s, from)) \in Hits(s, from)
    BY <1>3, MinIsIn DEF s
  <2> QED
    BY <2>1 DEF OneMeaning, s
<1>5. Nearest(p, from) = FoundIn(s, from)
  BY DEF Nearest, s
<1>6. QED
  BY <1>1, <1>4, <1>5 DEF FoundIn, s

\* An input that names one thing is read from the file in which the unit it names, if
\* that is over by then, leaves its output.  The merges of the root look elsewhere.
THEOREM InputsAreFound ==
  ASSUME NEW p \in Consumers, NodeKind(p) = "merge" => Len(p) > 1,
         NEW from, OneMeaning(p, from)
  PROVE  ReadsWhatIsWritten(p, from)
<1>1. p \in DOMAIN Tree /\ p \in Seq(STRING)
  BY TreeAssumption DEF Consumers, NodeKind, None
<1>2. ASSUME NEW u \in DOMAIN Tree \ {<<>>}, Before(u, p)
      PROVE  /\ Len(u) - 1 \in 0 .. Len(p) - 1 /\ ParentPath(u) = Prefix(p, Len(u) - 1)
             /\ LastId(u) \in ChildIds(ParentPath(u)) /\ ~IsDynamic(ParentPath(u))
             /\ u = Child(ParentPath(u), LastId(u))
  <2>1. u \in Seq(STRING) /\ Len(u) \in Nat /\ Len(u) > 0
    <3>1. u \in Seq(STRING)
      BY TreeAssumption
    <3> QED
      BY <3>1
  <2>2. Len(u) - 1 \in 0 .. Len(u) - 1 /\ (Len(u) - 1) + 1 = Len(u)
    BY <2>1
  <2>3. LastId(u) \in ChildIds(ParentPath(u))
    <3>1. u[(Len(u) - 1) + 1] \in ChildIds(Prefix(u, Len(u) - 1))
      BY <2>2, NodeAbove
    <3> QED
      BY <2>2, <3>1 DEF LastId, ParentPath, Prefix
  <2>4. u = Child(ParentPath(u), LastId(u))
    BY <2>1 DEF ParentPath, LastId, Child
  <2>5. Len(u) - 1 \in 0 .. Len(p) - 1
    BY <1>1, <1>2, <2>1 DEF Before
  <2> QED
    BY <1>2, <2>3, <2>4, <2>5 DEF Before, IsDynamic
<1> DEFINE m == Max(Knowing(p, from))
<1>3. ASSUME Knowing(p, from) # {}
      PROVE  /\ m \in Knowing(p, from) /\ m \in 0 .. Len(p) - 1
             /\ \A k \in Knowing(p, from) : k <= m
             /\ Resolved(p, from) = Nearest(p, from)
  <2>1. Knowing(p, from) \in SUBSET (0 .. Len(p) - 1)
    BY DEF Knowing
  <2>2. Len(p) - 1 \in Nat
    BY <1>1, <1>3, <2>1
  <2>3. m \in Knowing(p, from) /\ \A k \in Knowing(p, from) : k <= m
    BY <1>3, <2>1, <2>2, MaxIsIn
  <2> QED
    BY <1>3, <2>1, <2>3 DEF Resolved
<1>4. ASSUME NEW q \in Producers, LastId(q) = from, Before(q, p)
      PROVE  /\ Len(q) - 1 \in Knowing(p, from)
             /\ Len(q) = m + 1 => Resolved(p, from) = Written(q)
  <2> DEFINE k == Len(q) - 1
             s == Prefix(p, k)
  <2>1. q \in DOMAIN Tree \ {<<>>}
    BY DEF Producers, NodeKind, None
  <2>2. k \in 0 .. Len(p) - 1 /\ from \in ChildIds(s) /\ ~IsDynamic(s) /\ q = Child(s, from)
    BY <1>2, <1>4, <2>1
  <2> HIDE DEF k
  <2>3. PICK i \in DOMAIN Children(s) : Children(s)[i] = from
    BY <2>2 DEF ChildIds
  <2>4. i \in Hits(s, from) /\ k \in Knowing(p, from)
    BY <2>2, <2>3 DEF Hits, Hit, Named, Knowing
  <2>5. Len(q) = m + 1 => Nearest(p, from) = Sibling(s, from)
    <3> SUFFICES ASSUME Len(q) = m + 1  PROVE Nearest(p, from) = Sibling(s, from)
      OBVIOUS
    <3>1. k = m
      BY <1>3, <2>2, <2>4 DEF k
    <3> QED
      BY <1>1, <2>2, <2>3, <2>4, <3>1, NearestIs
  <2> QED
    BY <1>3, <2>2, <2>4, <2>5 DEF Sibling, k
<1>5. ASSUME NEW leg \in DOMAIN Tree, Len(leg) > 1, LastId(leg) = from,
             NodeKind(ParentPath(leg)) = "fanout", ~IsDynamic(ParentPath(leg)),
             Before(ParentPath(leg), p)
      PROVE  /\ Len(ParentPath(leg)) - 1 \in Knowing(p, from)
             /\ Len(ParentPath(leg)) = m + 1 =>
                  Resolved(p, from) = Written(LegOutput(leg))
  <2> DEFINE f == ParentPath(leg)
             k == Len(f) - 1
             s == Prefix(p, k)
             id == LastId(f)
  <2>1. f \in DOMAIN Tree \ {<<>>}
    BY <1>5 DEF NodeKind, None
  <2>2. k \in 0 .. Len(p) - 1 /\ id \in ChildIds(s) /\ ~IsDynamic(s) /\ f = Child(s, id)
    BY <1>2, <1>5, <2>1
  <2>3. leg = Child(f, from) /\ from \in ChildIds(f)
    <3>1. leg \in Seq(STRING) /\ Len(leg) \in Nat
      BY TreeAssumption
    <3>2. Len(leg) - 1 \in 0 .. Len(leg) - 1 /\ (Len(leg) - 1) + 1 = Len(leg)
      BY <1>5, <3>1
    <3>3. leg[(Len(leg) - 1) + 1] \in ChildIds(Prefix(leg, Len(leg) - 1))
      BY <3>2, NodeAbove
    <3>4. from \in ChildIds(f)
      BY <1>5, <3>2, <3>3 DEF LastId, ParentPath, Prefix
    <3>5. leg = Child(f, from)
      BY <1>5, <3>1 DEF Child, LastId, ParentPath
    <3> QED
      BY <3>4, <3>5
  <2> HIDE DEF f, k, s, id
  <2>4. from \in StaticLegs(f)
    BY <1>5, <2>3 DEF StaticLegs, Named, ChildIds, f
  <2>5. id # from /\ NodeKind(LegOutput(leg)) # "gate"
    BY <2>2, <2>3, <2>4 DEF OneMeaning, s
  <2>6. PICK i \in DOMAIN Children(s) : Children(s)[i] = id
    BY <2>2 DEF ChildIds
  <2>7. i \in Hits(s, from) /\ k \in Knowing(p, from)
    BY <2>2, <2>4, <2>6 DEF Hits, Hit, Named, Knowing, s
  <2>8. Len(f) = m + 1 => Nearest(p, from) = LegOf(f, from)
    <3> SUFFICES ASSUME Len(f) = m + 1  PROVE Nearest(p, from) = LegOf(f, from)
      OBVIOUS
    <3>1. k = m
      BY <1>3, <2>2, <2>7 DEF k
    <3> QED
      BY <1>1, <2>2, <2>5, <2>6, <2>7, <3>1, NearestIs DEF s
  <2>9. Len(f) = m + 1 => Resolved(p, from) = LegOf(f, from)
    BY <1>3, <2>2, <2>7, <2>8 DEF s
  <2> QED
    BY <2>2, <2>3, <2>5, <2>7, <2>9 DEF LegOf, Written, f, k, s
<1> DEFINE units == {u \in Producers : LastId(u) = from /\ Before(u, p)}
           legs == {u \in DOMAIN Tree :
                      /\ Len(u) > 1 /\ LastId(u) = from
                      /\ NodeKind(ParentPath(u)) = "fanout" /\ ~IsDynamic(ParentPath(u))
                      /\ Before(ParentPath(u), p)}
           D == {Len(u) : u \in units} \union {Len(u) - 1 : u \in legs}
           depth == Max(D)
           shadowed == \E u \in DOMAIN Tree \ {<<>>} :
             /\ LastId(u) = from /\ Len(u) > depth /\ Len(u) <= Len(p)
             /\ ParentPath(u) = Prefix(p, Len(u) - 1)
<1>6. Meant(p, from) = IF units \union legs = {} \/ shadowed THEN {}
                       ELSE {u \in units : Len(u) = depth} \union
                            {LegOutput(u) : u \in {l \in legs : Len(l) - 1 = depth}}
  BY DEF Meant
<1>7. \A u \in legs : Len(ParentPath(u)) = Len(u) - 1
  <2> SUFFICES ASSUME NEW u \in legs  PROVE Len(ParentPath(u)) = Len(u) - 1
    OBVIOUS
  <2>1. u \in Seq(STRING) /\ Len(u) > 1
    BY TreeAssumption
  <2> QED
    BY <2>1 DEF ParentPath
<1>8. \A d \in D : d - 1 \in Knowing(p, from) /\ d \in 0 .. Len(p)
  <2>1. \A u \in units : Len(u) - 1 \in Knowing(p, from)
    <3> SUFFICES ASSUME NEW u \in units  PROVE Len(u) - 1 \in Knowing(p, from)
      OBVIOUS
    <3>1. u \in DOMAIN Tree \ {<<>>}
      BY DEF Producers, NodeKind, None
    <3> QED
      BY <1>4, <3>1
  <2>2. \A u \in legs : (Len(u) - 1) - 1 \in Knowing(p, from)
    BY <1>5, <1>7
  <2>3. \A u \in units \union legs : Len(u) \in Nat
    BY TreeAssumption DEF Producers
  <2>4. Knowing(p, from) \subseteq 0 .. Len(p) - 1
    BY DEF Knowing
  <2> HIDE DEF units, legs
  <2>5. \A d \in D : d \in Int /\ d - 1 \in Knowing(p, from)
    BY <2>1, <2>2, <2>3
  <2> QED
    BY <1>1, <2>4, <2>5
<1> HIDE DEF m
<1>9. ASSUME units \union legs # {}, ~shadowed
      PROVE  depth = m + 1
  <2>1. depth \in D /\ \A d \in D : d <= depth
    <3>1. D # {}
      BY <1>9
    <3>2. D \in SUBSET (0 .. Len(p))
      BY <1>8
    <3>3. Len(p) \in Nat
      BY <1>1
    <3> HIDE DEF D
    <3> QED
      BY <3>1, <3>2, <3>3, MaxIsIn
  <2> HIDE DEF D, depth
  <2>2. m \in Knowing(p, from) /\ \A k \in Knowing(p, from) : k <= m
    BY <1>3, <1>8, <2>1
  <2>3. m \in 0 .. Len(p) - 1 /\ \E i : i \in Hits(Prefix(p, m), from)
    BY <2>2 DEF Knowing
  <2> DEFINE s == Prefix(p, m)
  <2>4. s \in DOMAIN Tree /\ s \in Seq(STRING) /\ Len(s) = m
    <3>1. s \in DOMAIN Tree
      BY <1>1, <2>3, NodeAbove
    <3> QED
      BY <1>1, <2>3, <3>1 DEF Prefix
  <2>5. PICK id \in ChildIds(s) : id = from \/ from \in StaticLegs(Child(s, id))
    BY <2>3 DEF Hits, Hit, Named, ChildIds
  <2> DEFINE c == Child(s, id)
  <2>6. /\ c \in DOMAIN Tree /\ c \in Seq(STRING) /\ Len(c) = m + 1 /\ c # <<>>
        /\ LastId(c) = id /\ ParentPath(c) = s
    <3>1. c \in DOMAIN Tree /\ id \in STRING
      BY <2>4, <2>5, ChildIsNode DEF Child
    <3> QED
      BY <2>3, <2>4, <3>1 DEF Child, LastId, ParentPath
  <2>7. CASE id = from
    <3>1. Len(c) <= Len(p) /\ ParentPath(c) = Prefix(p, Len(c) - 1)
      BY <1>1, <2>3, <2>6
    <3>2. ~(m + 1 > depth)
      BY <1>9, <2>6, <2>7, <3>1
    <3>3. depth - 1 <= m /\ depth \in Nat
      BY <1>8, <2>1, <2>2
    <3> QED
      BY <2>3, <3>2, <3>3
  <2>8. CASE from \in StaticLegs(c) /\ id # from
    <3> DEFINE l == Child(c, from)
    <3>1. NodeKind(c) = "fanout" /\ ~IsDynamic(c) /\ from \in ChildIds(c)
      <4>1. NodeKind(c) = "fanout" /\ from \in {Named(c)[j] : j \in DOMAIN Named(c)}
        BY <2>8 DEF StaticLegs
      <4> QED
        BY <4>1 DEF Named, ChildIds
    <3>2. Before(c, p)
      BY <2>3, <2>5, <2>8 DEF OneMeaning
    <3>3. l \in DOMAIN Tree /\ Len(l) = m + 2 /\ LastId(l) = from /\ ParentPath(l) = c
      <4>1. l \in DOMAIN Tree /\ from \in STRING
        BY <2>6, <3>1, ChildIsNode DEF Child
      <4> QED
        BY <2>3, <2>6, <4>1 DEF Child, LastId, ParentPath
    <3>4. l \in legs
      <4>1. Len(l) > 1
        BY <2>3, <3>3
      <4> QED
        BY <3>1, <3>2, <3>3, <4>1
    <3>5. m + 1 \in D
      BY <2>3, <3>3, <3>4 DEF D
    <3>6. m + 1 <= depth
      BY <2>1, <3>5
    <3>7. depth - 1 <= m /\ depth \in Nat
      BY <1>8, <2>1, <2>2
    <3> QED
      BY <2>3, <3>6, <3>7
  <2> QED
    BY <2>5, <2>7, <2>8
<1>10. \A q \in Meant(p, from) :
         \/ q \in units /\ Len(q) = m + 1
         \/ \E leg \in legs : Len(leg) - 1 = m + 1 /\ q = LegOutput(leg)
  BY <1>6, <1>9
<1>11. QED
  BY <1>4, <1>5, <1>7, <1>10 DEF ReadsWhatIsWritten

=============================================================================
