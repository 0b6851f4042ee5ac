---------------------------- MODULE MCMemoryPlan ----------------------------
(* Two scopes, an ingesting goroutine and plans with two targets. *)
EXTENDS MemoryPlan

Rec(scope, source, body) == [Record EXCEPT !.scope = scope, !.source = source, !.body = body]
Commits(stages, rs) == [k |-> "commit", stages |-> stages, recs |-> rs]
Frame(ref, part) == [k |-> "frame", ref |-> ref, part |-> part]
Forgets(q) == [k |-> "forget", query |-> q]
Picture(name) == [kind |-> "image", data |-> name, url |-> ""]
Words(name) == [kind |-> "text", data |-> name, url |-> ""]
Of(sources) == [Query EXCEPT !.sources = sources]
Said(t) == <<[role |-> "user", parts |-> <<Words(t)>>]>>

Seen == [Rec("room", "camera", "door") EXCEPT !.ref = "f1", !.tags = {"live"}]
Keep == [k |-> "filter", keeps |-> {"camera", "user"}]
Split == [k |-> "map", to |-> [s \in {"camera"} |-> <<Seen, [Seen EXCEPT !.ref = "f2", !.at = 1], Rec("hall", "camera", "")>>]]
Broken == [k |-> "map", to |-> [s \in {"user"} |-> <<Bad>>]]

Filmed ==
  <<Frame("f1", Picture("p1")), Commits(<<Split>>, <<Rec("room", "camera", "raw")>>), Frame("f2", Picture("p2")), Frame("f1", Picture("p3")), Frame("f2", Words("w"))>>

\* What is ingested: frames and records, records with a caller's ID, stages
\* that fan out, fail and make a record that the store refuses.
Ops ==
  {<<Commits(<<>>, <<[Rec("room", "user", "a") EXCEPT !.id = 1], [Rec("hall", "user", "a") EXCEPT !.id = 1], Rec("room", "user", "b")>>),
     Commits(<<Keep>>, <<Rec("room", "noise", "x"), [Rec("room", "user", "c") EXCEPT !.id = 1, !.at = 2]>>),
     Forgets([Query EXCEPT !.any = TRUE, !.since = 1, !.until = 4, !.sources = {"user"}])>>,
   Filmed,
   <<Commits(<<>>, <<Seen>>), Frame("f1", Picture("p1")), Frame("f2", Picture("p2")), Commits(<<Broken>>, <<Rec("room", "user", "a")>>), Forgets([Query EXCEPT !.scope = "room", !.id = 1, !.tags = {"live"}])>>}

T(name) == [name |-> name, provider |-> TRUE, scope |-> "", view |-> <<>>, see |-> NoQuery, album |-> TRUE, parts |-> <<>>, messages |-> <<>>, request |-> "own", says |-> name]
Eyes == [T("eyes") EXCEPT !.see = Of({"camera"}), !.parts = <<Picture("own")>>]
Hall == [T("hall") EXCEPT !.scope = "hall", !.view = <<Of({"user"}), NoQuery>>]
Pairs == {<<Eyes, Hall>>, <<[Eyes EXCEPT !.messages = <<[role |-> "assistant", parts |-> <<Words("go")>>]>>], [T("mute") EXCEPT !.says = ""]>>,
          <<[T("nil") EXCEPT !.request = "nil"], [Eyes EXCEPT !.album = FALSE]>>, <<[T("none") EXCEPT !.provider = FALSE], T("b")>>}

\* Nothing is ingested, and a target without a provider asked.
Idle == [reel |-> 1, ops |-> <<>>, view |-> <<>>, scope |-> "room", messages |-> <<>>, targets |-> <<[T("none") EXCEPT !.provider = FALSE]>>,
         race |-> FALSE, fails |-> FALSE, cancels |-> FALSE]

\* A plan with messages, whose caller may leave; a race without any, whose
\* targets may fail; and the other way round where two targets are to speak.
Plan(r, f, o, t) ==
  [reel |-> 1, ops |-> o, view |-> <<[Of({"user", "eyes"}) EXCEPT !.limit = 1], [Query EXCEPT !.any = TRUE, !.tags = {"live"}]>>, scope |-> "room",
   messages |-> IF r THEN <<>> ELSE Said("look"), targets |-> t, race |-> r, fails |-> f, cancels |-> ~f]
AllSetups ==
  {Idle} \cup {Plan(r, r, o, t) : r \in BOOLEAN, o \in Ops, t \in Pairs}
    \cup {Plan(r, ~r, Filmed, <<Eyes, Hall>>) : r \in BOOLEAN}
=============================================================================
