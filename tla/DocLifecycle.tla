---------------------------- MODULE DocLifecycle ----------------------------
(***************************************************************************)
(* What ingestion promises about documents, without requests, jobs, runs   *)
(* or attempts: a document's text is published once, in one step, complete *)
(* and matching its search points, and is never rewritten; a content is    *)
(* held by one document; only an indexed document answers from a settled   *)
(* set of points.                                                          *)
(***************************************************************************)
EXTENDS Integers

CONSTANTS
  Docs,       \* document ids
  ContentOf,  \* the content of each document
  Length,     \* the number of chunks of each document
  Versions    \* attempts at indexing; each draws its own point ids

VARIABLES
  phase,  \* absent, pending, working, indexed or failed
  text,   \* chunk rows published for a document: <<index, version>>
  hits    \* points by which an indexed document answers a search

vars == <<phase, text, hits>>

Phases == {"absent", "pending", "working", "indexed", "failed"}

Init ==
  /\ phase = [d \in Docs |-> "absent"]
  /\ text = [d \in Docs |-> {}]
  /\ hits = [d \in Docs |-> {}]

\* An upload adds its new documents together, one per content.
Create ==
  /\ \E S \in SUBSET Docs :
       /\ \A d \in S : phase[d] = "absent"
       /\ \A d \in S, e \in Docs :
            (d # e /\ ContentOf[d] = ContentOf[e]) => (phase[e] = "absent" /\ e \notin S)
       /\ phase' = [d \in Docs |-> IF d \in S THEN "pending" ELSE phase[d]]
  /\ UNCHANGED <<text, hits>>

Begin(d) ==
  /\ phase[d] \in {"pending", "failed"}
  /\ phase' = [phase EXCEPT ![d] = "working"]
  /\ UNCHANGED <<text, hits>>

Index(d) ==
  /\ phase[d] = "working" /\ text[d] = {} /\ Length[d] > 0
  /\ phase' = [phase EXCEPT ![d] = "indexed"]
  /\ \E v \in Versions :
       /\ text' = [text EXCEPT ![d] = (1 .. Length[d]) \X {v}]
       /\ hits' = [hits EXCEPT ![d] = (1 .. Length[d]) \X {v}]

\* A run may fail before it publishes, and also after it did.
Fail(d) ==
  /\ phase[d] \in {"working", "indexed", "failed"}
  /\ phase' = [phase EXCEPT ![d] = "failed"]
  /\ hits' = [hits EXCEPT ![d] = {}]
  /\ UNCHANGED text

Next == Create \/ \E d \in Docs : Begin(d) \/ Index(d) \/ Fail(d)

Spec == Init /\ [][Next]_vars
=============================================================================
