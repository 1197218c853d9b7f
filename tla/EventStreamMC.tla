--------------------------- MODULE EventStreamMC ---------------------------
(* What the architecture says of the event stream and the ids do not give. *)
EXTENDS EventStream

\* Bound of the run: a note and a failure are not explored in one behaviour.
NoteOrFailure == notes + failures <= 1

\* docs/architecture.md: events have monotonic ids and a client goes on from
\* Last-Event-ID.  No committed event is behind the cursor of a client that did not see it.
NothingSkipped == \A id \in log : id <= cursor => id \in Range(received)
=============================================================================
