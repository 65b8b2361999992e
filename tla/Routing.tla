------------------------------- MODULE Routing -------------------------------
(***************************************************************************)
(* lib.route: which protocol an event of the repository starts.  All       *)
(* protocols share one router; each declares its triggers.  A comment and  *)
(* a prefix are sequences of letters, of which only prefixes matter.       *)
(*                                                                         *)
(* A trigger: [on, target, prefix, actions, command].  An event:           *)
(* [on, target, body, action, protocol]; `protocol` is what a dispatch     *)
(* carries.  Protocols: a function from names to sequences of triggers.    *)
(***************************************************************************)
EXTENDS Naturals, Sequences, FiniteSets

NoCommand == ""

\* str.startswith
StartsWith(text, prefix) ==
  /\ Len(prefix) <= Len(text)
  /\ \A i \in 1 .. Len(prefix) : prefix[i] = text[i]

\* Mutant: a comment on an issue is taken for one on a pull request.
MatchesIgnoringTarget(t, event) ==
  t.on = event.on /\ (t.on = "issue_comment" => StartsWith(event.body, t.prefix))
\* An empty prefix or list of actions takes everything.
Matches(t, event) ==
  /\ t.on = event.on
  /\ t.on = "issue_comment" => t.target = event.target /\ StartsWith(event.body, t.prefix)
  /\ t.on = "pull_request" => t.actions = {} \/ event.action \in t.actions

\* match_trigger: the command of the first trigger that matches.
MatchTrigger(triggers, event) ==
  IF \A i \in DOMAIN triggers : ~Matches(triggers[i], event) THEN NoCommand
  ELSE triggers[CHOOSE i \in DOMAIN triggers :
                  /\ Matches(triggers[i], event)
                  /\ \A k \in 1 .. i - 1 : ~Matches(triggers[k], event)].command

Takers(protocols, event) ==
  {name \in DOMAIN protocols : MatchTrigger(protocols[name], event) # NoCommand}

Routed(name, command) == [kind |-> "run", protocol |-> name, command |-> command]
Skip == [kind |-> "skip"]
Ambiguous == [kind |-> "ambiguous"]

\* A dispatch names its protocol; an entry event has to have exactly one taker.
Route(protocols, event) ==
  LET takers == Takers(protocols, event) IN
  CASE event.protocol # "" -> Routed(event.protocol, NoCommand)
    [] event.protocol = "" /\ takers = {} -> Skip
    [] event.protocol = "" /\ Cardinality(takers) = 1 ->
         LET name == CHOOSE n \in takers : TRUE
         IN Routed(name, MatchTrigger(protocols[name], event))
    [] OTHER -> Ambiguous

-----------------------------------------------------------------------------
(* What an author may rely on. *)

CommentTriggers(triggers) ==
  {triggers[i] : i \in {k \in DOMAIN triggers : triggers[k].on = "issue_comment"}}

\* The advice of route's error: no comment_prefix is a prefix of another
\* protocol's, as far as they listen to the same comments.
Exclusive(protocols) ==
  \A m, n \in DOMAIN protocols : m # n =>
    \A t \in CommentTriggers(protocols[m]), u \in CommentTriggers(protocols[n]) :
      t.target = u.target => ~StartsWith(u.prefix, t.prefix)

\* Following it is enough: a comment that one protocol has a command for starts
\* that protocol with that command, whatever else listens.
CommentReachesProtocol(protocols, event) ==
  Exclusive(protocols) /\ event.on = "issue_comment" /\ event.protocol = "" =>
    \A name \in DOMAIN protocols :
      LET command == MatchTrigger(protocols[name], event) IN
      command # NoCommand => Route(protocols, event) = Routed(name, command)
=============================================================================
