----------------------------- MODULE MemoryPlan -----------------------------
(***************************************************************************)
(* Package memory: a store of records (Mem), an album of frames (Reel),    *)
(* pipes that commit records to the store, and a Plan that runs a prompt   *)
(* on several targets at once, each with its own view, and saves what they *)
(* say.  A goroutine ingests while the plan and its targets run; every     *)
(* call of Mem and Reel is atomic, under a mutex.  Bodies and frames are   *)
(* names.                                                                  *)
(***************************************************************************)
EXTENDS Integers, Sequences, SequencesExt, FiniteSets, FiniteSetsExt

CONSTANTS
  Cap,      \* the most records that Mem keeps in a scope (0: all), a number
  Setups    \* operations and plans that are checked

(***************************************************************************)
(* Records and queries.  ID 0 and At 0 are the empty ones; n and given are *)
(* history: the number of the write, and whether the store made the ID.    *)
(***************************************************************************)
Record == [id |-> 0, scope |-> "", source |-> "", body |-> "", ref |-> "", tags |-> {}, at |-> 0, n |-> 0, given |-> FALSE]
Query == [id |-> 0, scope |-> "", any |-> FALSE, sources |-> {}, tags |-> {}, since |-> 0, until |-> 0, limit |-> 0]
NoQuery == [Query EXCEPT !.limit = -1]    \* a nil pointer

Allows(q, r) ==
  /\ q.id # 0 => r.id = q.id
  /\ ~q.any => r.scope = q.scope
  /\ q.sources # {} => r.source \in q.sources
  /\ q.tags \subseteq r.tags
  /\ q.since # 0 => r.at >= q.since
  /\ q.until # 0 => r.at < q.until
\* Mutant: a query without a scope reads every scope.
scoped_Any(q, scope) == IF q.scope = "" /\ ~q.any THEN [q EXCEPT !.any = TRUE] ELSE q
scoped(q, scope) == IF q.scope = "" /\ ~q.any THEN [q EXCEPT !.scope = scope] ELSE q

VARIABLES
  setup,
  recs,      \* Mem.recs
  seq,       \* Mem.seq
  writes,    \* history: how many records were put, which is also the time
  order,     \* Reel.order
  shot,      \* Reel.shot
  ingest,    \* the goroutine that ingests: operations done, its batch, what Commit has stored
  tgt,       \* the goroutine of each target
  done,      \* the context of the targets is done
  results,   \* what the targets have delivered, in that order
  main       \* the goroutine that runs the plan and saves
vars == <<setup, recs, seq, writes, order, shot, ingest, tgt, done, results, main>>
mem == <<recs, seq, writes>>
reel == <<order, shot>>
plan == <<tgt, done, results, main>>

Target == DOMAIN setup.targets
Put(f, k, v) == [x \in DOMAIN f \cup {k} |-> IF x = k THEN v ELSE f[x]]

(***************************************************************************)
(* Mem.                                                                    *)
(***************************************************************************)
\* Mutant: the ID is looked for in every scope.
dropID_Everywhere(s, scope, id) == SelectSeq(s, LAMBDA r : r.id # id)
dropID(s, scope, id) == SelectSeq(s, LAMBDA r : ~(r.scope = scope /\ r.id = id))
\* The oldest of the scope go until there is room.
trim(s, scope) ==
  LET mine == {i \in DOMAIN s : s[i].scope = scope}
      goes(i) == Cap > 0 /\ i \in mine /\ Cardinality({j \in mine : j >= i}) > Cap
  IN FoldLeft(LAMBDA kept, i : IF goes(i) THEN kept ELSE Append(kept, s[i]), <<>>, [i \in DOMAIN s |-> i])
Stored(rec) ==
  [rec EXCEPT !.id = IF @ = 0 THEN seq + 1 ELSE @, !.at = IF @ = 0 THEN writes + 1 ELSE @, !.n = writes + 1, !.given = rec.id = 0]
Empty(rec) == rec.body = "" /\ rec.ref = ""
MemPut(rec) ==
  /\ ~Empty(rec) /\ writes' = writes + 1
  /\ seq' = IF rec.id = 0 THEN seq + 1 ELSE seq
  /\ recs' = trim(Append(IF rec.id = 0 THEN recs ELSE dropID(recs, rec.scope, rec.id), Stored(rec)), rec.scope)
Recall(q) ==
  LET matched == SelectSeq(recs, LAMBDA r : Allows(q, r))
  IN IF q.limit > 0 /\ Len(matched) > q.limit THEN SubSeq(matched, Len(matched) - q.limit + 1, Len(matched)) ELSE matched
Forget(q) == recs' = SelectSeq(recs, LAMBDA r : ~Allows(q, r)) /\ UNCHANGED <<seq, writes>>

(***************************************************************************)
(* Reel.                                                                   *)
(***************************************************************************)
ReelTakes(ref, part) == ref # "" /\ part.kind \in {"image", "video"} /\ (part.data # "" \/ part.url # "")
ReelPut(ref, part) ==
  LET fresh == Append(SelectSeq(order, LAMBDA x : x # ref), ref)
      over == IF setup.reel > 0 /\ Len(fresh) > setup.reel THEN Len(fresh) - setup.reel ELSE 0
  IN IF ~ReelTakes(ref, part) THEN UNCHANGED reel
     ELSE /\ order' = SubSeq(fresh, over + 1, Len(fresh))
          /\ shot' = [x \in ToSet(SubSeq(fresh, over + 1, Len(fresh))) |-> IF x = ref THEN part ELSE shot[x]]

(***************************************************************************)
(* Pipe.  A stage of a setup is a Filter with the sources it keeps, or a   *)
(* Map: from sources to what a record becomes, or to an error.             *)
(***************************************************************************)
Filter(keeps, in) == SelectSeq(in, LAMBDA r : r.source \in keeps)
Map(to, in) == FlattenSeq([i \in DOMAIN in |-> IF in[i].source \in DOMAIN to THEN to[in[i].source] ELSE <<in[i]>>])
Bad == [Record EXCEPT !.source = "error"]     \* what a function returns that fails
Staged(stages, batch) ==
  FoldLeft(LAMBDA in, stage : IF in = <<>> \/ Bad \in ToSet(in) THEN <<>>
                              ELSE IF stage.k = "filter" THEN Filter(stage.keeps, in) ELSE Map(stage.to, in), batch, stages)

Op == setup.ops[ingest.n + 1]
Busy == ingest.batch # <<>>
Next1 == [ingest EXCEPT !.n = @ + 1, !.batch = <<>>, !.out = <<>>]
\* The batch is staged before anything is stored.
Commit ==
  /\ ~Busy /\ ingest.n < Len(setup.ops) /\ Op.k = "commit"
  /\ LET batch == Staged(Op.stages, Op.recs)
     IN ingest' = IF batch = <<>> \/ Bad \in ToSet(batch) THEN Next1 ELSE [ingest EXCEPT !.batch = batch]
  /\ UNCHANGED <<setup, mem, reel, plan>>
\* A record that the store refuses ends the commit; those before it stay.
CommitPut ==
  /\ Busy
  /\ LET rec == Head(ingest.batch) more == Tail(ingest.batch)
     IN IF Empty(rec) THEN ingest' = Next1 /\ UNCHANGED mem
        ELSE /\ MemPut(rec)
             /\ ingest' = IF more = <<>> THEN Next1 ELSE [ingest EXCEPT !.batch = more, !.out = Append(@, writes + 1)]
  /\ UNCHANGED <<setup, reel, plan>>
FrameOrForget ==
  /\ ~Busy /\ ingest.n < Len(setup.ops) /\ Op.k \in {"frame", "forget"} /\ ingest' = Next1
  /\ \/ Op.k = "frame" /\ ReelPut(Op.ref, Op.part) /\ UNCHANGED mem
     \/ Op.k = "forget" /\ Forget(Op.query) /\ UNCHANGED reel
  /\ UNCHANGED <<setup, plan>>

(***************************************************************************)
(* Plan.one: the goroutine of a target.                                    *)
(***************************************************************************)
NewTarget == [pc |-> "start", blocks |-> <<>>, sect |-> 0, seen |-> <<>>, parts |-> <<>>, msgs |-> <<>>, err |-> FALSE, text |-> ""]
Goes(i, t) == tgt' = [tgt EXCEPT ![i] = t]
Fails(i) == Goes(i, [tgt[i] EXCEPT !.pc = "deliver", !.err = TRUE])
Target1(i) == setup.targets[i]
View(i) == IF Target1(i).view = <<>> THEN setup.view ELSE Target1(i).view
Scope(i) == IF Target1(i).scope # "" THEN Target1(i).scope ELSE setup.scope

Start(i) ==
  /\ tgt[i].pc = "start"
  /\ IF done \/ ~Target1(i).provider THEN Fails(i) ELSE Goes(i, [tgt[i] EXCEPT !.pc = "build"])
  /\ UNCHANGED <<setup, mem, reel, ingest, done, results, main>>

\* A section is recalled for itself: the store may change between two.
Build(i) ==
  /\ tgt[i].pc = "build" /\ tgt[i].sect < Len(View(i))
  /\ LET sec == View(i)[tgt[i].sect + 1]
         body == IF sec = NoQuery THEN <<[Record EXCEPT !.body = "note"]>> ELSE Recall(scoped(sec, Scope(i)))
     IN Goes(i, [tgt[i] EXCEPT !.sect = @ + 1, !.blocks = Append(@, body)])
  /\ UNCHANGED <<setup, mem, reel, ingest, done, results, main>>

See(i) ==
  /\ tgt[i].pc = "build" /\ tgt[i].sect = Len(View(i))
  /\ LET found == IF Target1(i).see = NoQuery THEN <<>> ELSE Recall(scoped(Target1(i).see, Scope(i)))
     IN Goes(i, [tgt[i] EXCEPT !.pc = "open", !.seen = SelectSeq(found, LAMBDA r : r.ref # "")])
  /\ UNCHANGED <<setup, mem, reel, ingest, done, results, main>>

\* A frame that has left the album since the recall fails the target.
Open(i) ==
  /\ tgt[i].pc = "open" /\ Len(tgt[i].parts) < Len(tgt[i].seen)
  /\ LET ref == tgt[i].seen[Len(tgt[i].parts) + 1].ref
     IN IF Target1(i).album /\ ref \in DOMAIN shot THEN Goes(i, [tgt[i] EXCEPT !.parts = Append(@, shot[ref])]) ELSE Fails(i)
  /\ UNCHANGED <<setup, mem, reel, ingest, done, results, main>>

attach(msgs, parts) ==
  CASE parts = <<>> -> msgs
    [] parts # <<>> /\ (msgs = <<>> \/ Last(msgs).role # "user") -> Append(msgs, [role |-> "user", parts |-> parts])
    [] OTHER -> [msgs EXCEPT ![Len(msgs)].parts = @ \o parts]

\* The request is built, by the function of the target if it has one.
Request(i) ==
  /\ tgt[i].pc = "open" /\ Len(tgt[i].parts) = Len(tgt[i].seen)
  /\ LET sent == IF Target1(i).messages = <<>> THEN setup.messages ELSE Target1(i).messages
     IN IF Target1(i).request = "nil" THEN Fails(i)
        ELSE Goes(i, [tgt[i] EXCEPT !.pc = "call", !.msgs = attach(sent, tgt[i].parts \o Target1(i).parts)])
  /\ UNCHANGED <<setup, mem, reel, ingest, done, results, main>>

\* Generate and CollectText: a text that breaks off is kept beside the error.
Collect(i) ==
  /\ tgt[i].pc = "call"
  /\ \/ Goes(i, [tgt[i] EXCEPT !.pc = "deliver", !.text = Target1(i).says])
     \/ (setup.fails \/ done) /\ Fails(i)
     \/ (setup.fails \/ done) /\ Goes(i, [tgt[i] EXCEPT !.pc = "deliver", !.err = TRUE, !.text = Target1(i).says])
  /\ UNCHANGED <<setup, mem, reel, ingest, done, results, main>>

Result(i) == [name |-> i, err |-> tgt[i].err, text |-> tgt[i].text]
Deliver(i) ==
  /\ tgt[i].pc = "deliver" /\ Goes(i, [tgt[i] EXCEPT !.pc = "end"]) /\ results' = Append(results, Result(i))
  /\ UNCHANGED <<setup, mem, reel, ingest, done, main>>

(***************************************************************************)
(* Plan.Run and Plan.Save.                                                 *)
(***************************************************************************)
\* Each goroutine writes its own place of the slice, and all are waited for.
All ==
  /\ ~setup.race /\ main.pc = "run" /\ Len(results) = Cardinality(Target)
  /\ main' = [main EXCEPT !.pc = "save", !.got = [i \in Target |-> CHOOSE r \in ToSet(results) : r.name = i]]
  /\ UNCHANGED <<setup, mem, reel, ingest, tgt, done, results>>
Wins(r) == ~r.err
Race ==
  /\ setup.race /\ main.pc = "run" /\ Len(results) > Len(main.got)
  /\ LET r == results[Len(main.got) + 1] fails == Append(main.got, r)
     IN \/ Wins(r) /\ done' = TRUE /\ main' = [main EXCEPT !.pc = "save", !.got = <<r>>]
        \/ ~Wins(r) /\ Len(fails) < Cardinality(Target) /\ main' = [main EXCEPT !.got = fails] /\ UNCHANGED done
        \/ ~Wins(r) /\ Len(fails) = Cardinality(Target) /\ done' = TRUE /\ main' = [main EXCEPT !.pc = "save", !.got = fails]
  /\ UNCHANGED <<setup, mem, reel, ingest, tgt, results>>
Save ==
  /\ main.pc = "save" /\ main.i < Len(main.got)
  /\ LET r == main.got[main.i + 1] skip == r.err \/ r.text = ""
     IN /\ main' = [main EXCEPT !.i = @ + 1]
        /\ IF skip THEN UNCHANGED mem
           ELSE MemPut([Record EXCEPT !.scope = setup.scope, !.source = setup.targets[r.name].name, !.body = r.text])
  /\ UNCHANGED <<setup, reel, ingest, tgt, done, results>>
\* The caller's context ends.
Cancel == setup.cancels /\ ~done /\ main.pc = "run" /\ done' = TRUE /\ UNCHANGED <<setup, mem, reel, ingest, tgt, results, main>>

Init ==
  /\ setup \in Setups
  /\ recs = <<>> /\ seq = 0 /\ writes = 0 /\ order = <<>> /\ shot = <<>>
  /\ ingest = [n |-> 0, batch |-> <<>>, out |-> <<>>]
  /\ tgt = [i \in Target |-> NewTarget] /\ done = FALSE /\ results = <<>>
  /\ main = [pc |-> "run", got |-> <<>>, i |-> 0]
Ended == ~Busy /\ ingest.n = Len(setup.ops) /\ main.pc = "save" /\ main.i = Len(main.got) /\ \A i \in Target : tgt[i].pc = "end"
Done == Ended /\ UNCHANGED vars
One(i) == Start(i) \/ Build(i) \/ See(i) \/ Open(i) \/ Request(i) \/ Collect(i) \/ Deliver(i)
Next == Commit \/ CommitPut \/ FrameOrForget \/ (\E i \in Target : One(i)) \/ All \/ Race \/ Save \/ Cancel \/ Done
Spec == Init /\ [][Next]_vars

(***************************************************************************)
(* Properties.                                                             *)
(***************************************************************************)
TypeOK ==
  /\ seq <= writes /\ done \in BOOLEAN /\ main.pc \in {"run", "save"} /\ main.i \in 0 .. Len(main.got)
  /\ \A i \in Target : tgt[i].pc \in {"start", "build", "open", "call", "deliver", "end"}

\* Two records of a scope have one ID only if the store gave it to the later
\* one: it does not look whether a caller has used the number.
OneByID ==
  \A i, j \in DOMAIN recs : i < j /\ recs[i].scope = recs[j].scope /\ recs[i].id = recs[j].id => recs[j].given
\* The album has its newest frames, each once.
ReelSound ==
  /\ ToSet(order) = DOMAIN shot /\ Len(order) = Cardinality(DOMAIN shot) /\ setup.reel > 0 => Len(order) <= setup.reel
\* A target is told records of its own scope and of the scopes that its view
\* names, oldest first, and no more than a section asks for.
ToldItsOwn ==
  \A i \in Target : \A k \in DOMAIN tgt[i].blocks : View(i)[k] # NoQuery =>
    LET q == View(i)[k] block == tgt[i].blocks[k]
    IN /\ q.limit > 0 => Len(block) <= q.limit
       /\ \A x, y \in DOMAIN block : x < y => block[x].n < block[y].n
       /\ \A r \in ToSet(block) :
            q.any \/ r.scope = (IF q.scope # "" THEN q.scope ELSE IF Target1(i).scope # "" THEN Target1(i).scope ELSE setup.scope)
\* What is sent to a target is what it was given and a part for each frame it
\* sees, in this order, the parts in a message of the user.
SentWhole ==
  \A i \in Target : tgt[i].msgs # <<>> =>
    LET given == IF Target1(i).messages = <<>> THEN setup.messages ELSE Target1(i).messages
        own == tgt[i].parts \o Target1(i).parts
        Parts(msgs) == FlattenSeq([k \in DOMAIN msgs |-> msgs[k].parts])
    IN /\ Parts(tgt[i].msgs) = Parts(given) \o own /\ Len(tgt[i].parts) = Len(tgt[i].seen)
       /\ own # <<>> => Last(tgt[i].msgs).role = "user"
\* Run returns one result of each target in their order, or in a race the
\* first success alone, or every failure.
Returned ==
  main.pc = "save" =>
    IF setup.race
    THEN LET firsts == {k \in DOMAIN results : ~results[k].err}
         IN IF main.got # <<>> /\ ~main.got[1].err THEN main.got = <<results[Min(firsts)]>>
            ELSE Len(main.got) = Cardinality(Target) /\ {r.name : r \in ToSet(main.got)} = Target /\ firsts = {}
    ELSE Len(main.got) = Cardinality(Target) /\ \A i \in Target : main.got[i] = Result(i)
\* A target whose frame has left the album between the recall and the opening
\* does not ask its provider about what is left, and says nothing that a race
\* could take or Save could keep.
NoneUnseen ==
  \A i \in Target : tgt[i].pc \in {"deliver", "end"} /\ Len(tgt[i].parts) < Len(tgt[i].seen) =>
    tgt[i].err /\ tgt[i].msgs = <<>> /\ tgt[i].text = ""

\* What is stored, told, sent and returned is right: see each part.
Remembered == TypeOK /\ OneByID /\ ReelSound /\ ToldItsOwn /\ SentWhole /\ NoneUnseen /\ Returned

\* "Put with an existing ID in the same scope replaces that record" (store.go:13):
\* an ID stands for one record of its scope.  The code breaks this: the number
\* that the store gives to a record without an ID may be one that a caller has
\* used, and nothing is replaced then.
IDsApart == \A i, j \in DOMAIN recs : i # j /\ recs[i].scope = recs[j].scope => recs[i].id # recs[j].id

\* Each scope of the store is a shelf of its own: a put in one takes no record
\* from the other, and what is told twice is kept once.
OfScope(s) == SelectSeq(recs, LAMBDA r : r.scope = s)
InRoom == INSTANCE Shelf WITH items <- OfScope("room"), Room <- Cap, puts <- writes
InHall == INSTANCE Shelf WITH items <- OfScope("hall"), Room <- Cap, puts <- writes
ImplementsShelves == InRoom!Spec /\ InHall!Spec
=============================================================================
