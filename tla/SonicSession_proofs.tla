------------------------- MODULE SonicSession_proofs -------------------------
(***************************************************************************)
(* Proofs about SonicSession, for any number of senders and Sends, any     *)
(* completions, events and failing writes: the caller gets what the server *)
(* said, and the protocol of prompts and blocks is kept.                   *)
(***************************************************************************)
EXTENDS SonicSession, FiniteSetTheorems, SequenceTheorems, TLAPS

(***************************************************************************)
(* Types.  They need to know what each goroutine may have left to write.   *)
(***************************************************************************)
Opens(s) ==
  IF s.sys
  THEN s.todo \in {<<Ev("prompt_start", s.p, None), Ev("system_start", s.p, None), Ev("system_text", s.p, None), Ev("system_end", s.p, None)>>,
                   <<Ev("system_start", s.p, None), Ev("system_text", s.p, None), Ev("system_end", s.p, None)>>,
                   <<Ev("system_text", s.p, None), Ev("system_end", s.p, None)>>,
                   <<Ev("system_end", s.p, None)>>, <<>>}
  ELSE s.todo \in {<<Ev("prompt_start", s.p, None)>>, <<>>}

EndsTurn(s) ==
  \/ s.todo = <<Ev("prompt_end", s.p, None)>>
  \/ \E b \in Names : s.todo = <<Ev("end", s.p, b), Ev("prompt_end", s.p, None)>>

SendsContent(s) ==
  \E p \in Names \cup {None} :
    s.todo = <<Ev("start", p, None), Ev("content", p, None)>> \/ s.todo = <<Ev("content", p, None)>>

Shape(s) ==
  /\ s.pc = "idle" => s = Idle
  /\ s.pc \in {"wait", "recheck", "body"} => s.todo = <<>>
  /\ s.pc = "open" => Opens(s)
  /\ s.pc = "claim" => s.todo \in {<<>>, <<Ev("start", s.p, s.b)>>}
  /\ s.pc = "raw" => s.todo = <<Ev("audio", s.p, s.b)>>
  /\ s.pc = "rest" => IF s.op = "eot" THEN EndsTurn(s) ELSE SendsContent(s)
  /\ s.op = "eot" => s.pc \in {"idle", "rest"}
  /\ s.pc \in {"claim", "raw"} => s.op = "audio"
  /\ s.pc = "open" \/ (s.pc = "rest" /\ s.op = "eot") => s.p \in 1 .. ids.p

\* Only who has promptMu is about to open a prompt, and none is open then.
Alone(t) ==
  /\ sender[t].pc \in {"recheck", "open"} => promptMu = t
  /\ sender[t].pc = "open" => prompt.id = None /\ prompt.system

Shapes ==
  /\ \A t \in Senders : Shape(sender[t]) /\ Alone(t)
  /\ prompt.id <= ids.p /\ audio <= ids.b

CloserShape ==
  /\ closer.pc \in {"idle", "block", "done"} => closer.todo = <<>>
  /\ closer.pc = "prompt" =>
       closer.todo = <<>> \/ \E p \in Names \cup {None}, b \in Names : closer.todo = <<Ev("end", p, b)>>
  /\ closer.pc = "session" =>
       closer.todo = <<>> \/ \E p \in 1 .. ids.p : closer.todo = <<Ev("prompt_end", p, None)>>
  /\ closer.pc = "hang_up" => closer.todo \in {<<>>, <<Ev("session_end", None, None)>>}
  /\ (es.open <=> closer.pc # "done") /\ (closed <=> closer.pc # "idle")

\* A prompt and a block are named by one Send each.
WillOpen == {t \in Senders : sender[t].pc \in {"wait", "recheck"}}
WillClaim == {t \in Senders : sender[t].pc \in {"wait", "recheck", "open", "body"}}
Counted ==
  /\ ids.p + Cardinality(WillOpen) + budget.sends <= MaxSends
  /\ ids.b + Cardinality(WillClaim) + budget.sends <= MaxSends

TypeInv == TypeOK /\ Shapes /\ CloserShape /\ Counted

LEMMA Bounds ==
  /\ IsFiniteSet(Senders) /\ Nobody \notin Senders
  /\ RecvSize \in Nat /\ RecvSize >= 1 /\ MaxSends \in Nat
  /\ Names = 1 .. MaxSends /\ None = 0 /\ None \notin Names
BY SonicBounds DEF Names, None

LEMMA EventFields ==
  ASSUME NEW e \in Event
  PROVE  e.p \in Names \cup {None} /\ e.b \in Names \cup {None}
BY DEF Event

\* An event, and a list of a few of them.
LEMMA Evs ==
  ASSUME NEW k \in {"prompt_start", "system_start", "system_text", "system_end", "start", "audio", "end", "content",
                    "prompt_end", "session_end"},
         NEW p \in Names \cup {None}, NEW b \in Names \cup {None}
  PROVE  Ev(k, p, b) \in Event /\ Ev(k, p, b).ev = k /\ Ev(k, p, b).p = p /\ Ev(k, p, b).b = b
BY DEF Ev, Event

LEMMA Lists ==
  /\ \A a : Head(<<a>>) = a /\ Tail(<<a>>) = <<>> /\ <<a>> # <<>>
  /\ \A a, b : Head(<<a, b>>) = a /\ Tail(<<a, b>>) = <<b>> /\ <<a, b>> # <<>>
  /\ \A a, b, c : Head(<<a, b, c>>) = a /\ Tail(<<a, b, c>>) = <<b, c>> /\ <<a, b, c>> # <<>>
  /\ \A a, b, c, d : Head(<<a, b, c, d>>) = a /\ Tail(<<a, b, c, d>>) = <<b, c, d>> /\ <<a, b, c, d>> # <<>>
OBVIOUS

LEMMA Joins ==
  ASSUME NEW a \in Event, NEW b \in Event
  PROVE  /\ <<a>> \o <<>> = <<a>> /\ <<>> \o <<a>> = <<a>>
         /\ <<a>> \o <<b>> = <<a, b>>
<1>1. /\ <<>> \in Seq(Event) /\ <<a>> \in Seq(Event) /\ <<b>> \in Seq(Event)
      /\ Len(<<a>>) = 1 /\ Len(<<b>>) = 1 /\ <<a>>[1] = a
  OBVIOUS
<1>2. <<a>> \o <<>> = <<a>> /\ <<>> \o <<a>> = <<a>>
  BY <1>1, ConcatEmptySeq
<1>3. <<a>> \o <<b>> = <<a, b>>
  <2> DEFINE s == <<a>> \o <<b>>
  <2>1. Len(s) = 2 /\ s \in Seq(Event) /\ s[1] = a /\ s[2] = b
    BY <1>1, ConcatProperties
  <2>2. <<a, b>> \in Seq(Event) /\ Len(<<a, b>>) = 2 /\ <<a, b>>[1] = a /\ <<a, b>>[2] = b
    OBVIOUS
  <2> HIDE DEF s
  <2>3. \A i \in 1 .. 2 : i = 1 \/ i = 2
    OBVIOUS
  <2>4. s = <<a, b>>
    BY <2>1, <2>2, <2>3, SeqEqual
  <2> QED
    BY <2>4 DEF s
<1> QED
  BY <1>2, <1>3

LEMMA JoinsThree ==
  ASSUME NEW a \in Event, NEW b \in Event, NEW c \in Event, NEW d \in Event
  PROVE  <<a>> \o <<b, c, d>> = <<a, b, c, d>>
<1>1. /\ <<a>> \in Seq(Event) /\ <<b, c, d>> \in Seq(Event)
      /\ Len(<<a>>) = 1 /\ Len(<<b, c, d>>) = 3 /\ <<a>>[1] = a
  OBVIOUS
<1> DEFINE s == <<a>> \o <<b, c, d>>
<1>2. /\ Len(s) = 4 /\ s \in Seq(Event)
      /\ s[1] = a /\ s[2] = b /\ s[3] = c /\ s[4] = d
  <2>1. Len(s) = 4 /\ s \in Seq(Event) /\ \A i \in 1 .. 4 : s[i] = IF i <= 1 THEN <<a>>[i] ELSE <<b, c, d>>[i - 1]
    BY <1>1, ConcatProperties
  <2>2. s[1] = a
    BY <1>1, <2>1
  <2>3. s[2] = <<b, c, d>>[1] /\ s[3] = <<b, c, d>>[2] /\ s[4] = <<b, c, d>>[3]
    BY <2>1
  <2> QED
    BY <2>1, <2>2, <2>3
<1>3. /\ <<a, b, c, d>> \in Seq(Event) /\ Len(<<a, b, c, d>>) = 4 /\ <<a, b, c, d>>[1] = a
      /\ <<a, b, c, d>>[2] = b /\ <<a, b, c, d>>[3] = c /\ <<a, b, c, d>>[4] = d
  OBVIOUS
<1> HIDE DEF s
<1>4. \A i \in 1 .. 4 : i = 1 \/ i = 2 \/ i = 3 \/ i = 4
  OBVIOUS
<1>5. s = <<a, b, c, d>>
  BY <1>2, <1>3, <1>4, SeqEqual
<1> QED
  BY <1>5 DEF s

\* What a sender has to write, and what is left of it afterwards.
LEMMA Todo ==
  ASSUME TypeInv, NEW t \in Senders, sender[t].todo # <<>>
  PROVE  LET s == sender[t]
             e == Head(s.todo)
             r == Tail(s.todo)
         IN  /\ e \in Event /\ r \in Seq(Event) /\ Len(r) = Len(s.todo) - 1 /\ Len(s.todo) \in Nat
             /\ s.pc \in {"open", "claim", "raw", "rest"}
             /\ s.pc = "open" => /\ e.ev \in {"prompt_start", "system_start", "system_text", "system_end"} /\ e.p = s.p
                                 /\ s.p \in Names
                                 /\ e.ev = "prompt_start" => (s.sys => Len(s.todo) = 4)
                                 /\ e.ev = "system_text" => s.sys /\ Len(s.todo) = 2
                                 /\ r # <<>> => Head(r).ev # "prompt_start"
                                 /\ \A c \in BOOLEAN : Opens([s EXCEPT !.todo = r, !.checked = c])
             /\ s.pc \in {"claim", "raw"} => e.ev \in {"start", "audio"} /\ r = <<>>
             /\ s.pc = "rest" /\ s.op # "eot" =>
                  /\ e.ev \in {"start", "content"}
                  /\ r # <<>> => \A c \in BOOLEAN : SendsContent([s EXCEPT !.todo = r, !.checked = c])
             /\ s.pc = "rest" /\ s.op = "eot" =>
                  /\ s.p \in Names
                  /\ \/ e = Ev("prompt_end", s.p, None) /\ r = <<>>
                     \/ /\ e.ev = "end" /\ e.b \in Names /\ r = <<Ev("prompt_end", s.p, None)>>
                        /\ \A c \in BOOLEAN : EndsTurn([s EXCEPT !.todo = r, !.checked = c])
<1> DEFINE s == sender[t]
           e == Head(s.todo)
           r == Tail(s.todo)
<1>1. s \in Sender /\ Shape(s) /\ ids \in [p : Names \cup {None}, b : Names \cup {None}]
  BY DEF TypeInv, TypeOK, SendType, Shapes
<1>2. s.todo \in Seq(Event) /\ s.todo # <<>> /\ s.p \in Names \cup {None} /\ s.sys \in BOOLEAN
  BY <1>1 DEF Sender
<1>3. e \in Event /\ r \in Seq(Event) /\ Len(r) = Len(s.todo) - 1 /\ Len(s.todo) \in Nat
  BY <1>2, HeadTailProperties, LenProperties
<1>4. s.pc \in {"open", "claim", "raw", "rest"}
  <2>1. Idle.todo = <<>>
    BY DEF Idle
  <2>2. s.pc \notin {"idle", "wait", "recheck", "body"}
    BY <1>1, <1>2, <2>1 DEF Shape
  <2> QED
    BY <1>1, <2>2 DEF Sender
<1>5. ASSUME s.pc = "open" \/ (s.pc = "rest" /\ s.op = "eot") PROVE s.p \in Names
  <2>1. s.p \in 1 .. ids.p /\ ids.p \in 0 .. MaxSends /\ MaxSends \in Nat
    BY <1>1, <1>5, Bounds DEF Shape
  <2> QED
    BY <2>1, Bounds
<1> DEFINE ps == Ev("prompt_start", s.p, None)
           ss == Ev("system_start", s.p, None)
           st == Ev("system_text", s.p, None)
           se == Ev("system_end", s.p, None)
           pe == Ev("prompt_end", s.p, None)
<1>6. /\ ps.ev = "prompt_start" /\ ss.ev = "system_start" /\ st.ev = "system_text" /\ se.ev = "system_end"
      /\ ps.p = s.p /\ ss.p = s.p /\ st.p = s.p /\ se.p = s.p
  BY DEF Ev
<1> HIDE DEF ps, ss, st, se, pe
<1>7. ASSUME s.pc = "open"
      PROVE  /\ e.ev \in {"prompt_start", "system_start", "system_text", "system_end"} /\ e.p = s.p
             /\ e.ev = "prompt_start" => (s.sys => Len(s.todo) = 4)
             /\ e.ev = "system_text" => s.sys /\ Len(s.todo) = 2
             /\ r # <<>> => Head(r).ev # "prompt_start"
             /\ \A c \in BOOLEAN : Opens([s EXCEPT !.todo = r, !.checked = c])
  <2>1. Opens(s)
    BY <1>1, <1>7 DEF Shape
  <2>2. \/ s.sys /\ s.todo = <<ps, ss, st, se>>
        \/ s.sys /\ s.todo = <<ss, st, se>>
        \/ s.sys /\ s.todo = <<st, se>>
        \/ s.sys /\ s.todo = <<se>>
        \/ ~s.sys /\ s.todo = <<ps>>
    BY <1>2, <2>1 DEF Opens, ps, ss, st, se
  <2>3. ASSUME NEW c \in BOOLEAN
        PROVE  LET z == [s EXCEPT !.todo = r, !.checked = c] IN z.todo = r /\ z.sys = s.sys /\ z.p = s.p
    BY <1>1 DEF Sender
  <2>4. ASSUME s.sys, r \in {<<ss, st, se>>, <<st, se>>, <<se>>, <<>>}
        PROVE  \A c \in BOOLEAN : Opens([s EXCEPT !.todo = r, !.checked = c])
    BY <2>3, <2>4 DEF Opens, ss, st, se
  <2>5. ASSUME ~s.sys, r = <<>>
        PROVE  \A c \in BOOLEAN : Opens([s EXCEPT !.todo = r, !.checked = c])
    BY <2>3, <2>5 DEF Opens
  <2>6. CASE s.sys /\ s.todo = <<ps, ss, st, se>>
    <3>1. e = ps /\ r = <<ss, st, se>> /\ Head(r) = ss /\ Len(s.todo) = 4
      BY <2>6
    <3> QED
      BY <1>6, <2>4, <2>6, <3>1
  <2>7. CASE s.sys /\ s.todo = <<ss, st, se>>
    <3>1. e = ss /\ r = <<st, se>> /\ Head(r) = st
      BY <2>7
    <3> QED
      BY <1>6, <2>4, <2>7, <3>1
  <2>8. CASE s.sys /\ s.todo = <<st, se>>
    <3>1. e = st /\ r = <<se>> /\ Head(r) = se /\ Len(s.todo) = 2
      BY <2>8
    <3> QED
      BY <1>6, <2>4, <2>8, <3>1
  <2>9. CASE s.sys /\ s.todo = <<se>>
    <3>1. e = se /\ r = <<>>
      BY <2>9
    <3> QED
      BY <1>6, <2>4, <2>9, <3>1
  <2>10. CASE ~s.sys /\ s.todo = <<ps>>
    <3>1. e = ps /\ r = <<>>
      BY <2>10
    <3> QED
      BY <1>6, <2>5, <2>10, <3>1
  <2> QED
    BY <2>2, <2>6, <2>7, <2>8, <2>9, <2>10
<1>8. ASSUME s.pc \in {"claim", "raw"} PROVE e.ev \in {"start", "audio"} /\ r = <<>>
  <2>1. s.todo = <<Ev("start", s.p, s.b)>> \/ s.todo = <<Ev("audio", s.p, s.b)>>
    BY <1>1, <1>2, <1>8 DEF Shape
  <2>2. Ev("start", s.p, s.b).ev = "start" /\ Ev("audio", s.p, s.b).ev = "audio"
    BY DEF Ev
  <2> QED
    BY <2>1, <2>2, Lists
<1>9. ASSUME s.pc = "rest", s.op # "eot"
      PROVE  /\ e.ev \in {"start", "content"}
             /\ r # <<>> => \A c \in BOOLEAN : SendsContent([s EXCEPT !.todo = r, !.checked = c])
  <2>1. SendsContent(s)
    BY <1>1, <1>9 DEF Shape
  <2>2. PICK p \in Names \cup {None} :
          s.todo = <<Ev("start", p, None), Ev("content", p, None)>> \/ s.todo = <<Ev("content", p, None)>>
    BY <2>1 DEF SendsContent
  <2>3. Ev("start", p, None).ev = "start" /\ Ev("content", p, None).ev = "content"
    BY DEF Ev
  <2>4. e.ev \in {"start", "content"} /\ (r = <<>> \/ r = <<Ev("content", p, None)>>)
    <3>1. CASE s.todo = <<Ev("start", p, None), Ev("content", p, None)>>
      <4>1. e = Ev("start", p, None) /\ r = <<Ev("content", p, None)>>
        BY <3>1, Lists
      <4> QED
        BY <2>3, <4>1
    <3>2. CASE s.todo = <<Ev("content", p, None)>>
      <4>1. e = Ev("content", p, None) /\ r = <<>>
        BY <3>2, Lists
      <4> QED
        BY <2>3, <4>1
    <3> QED
      BY <2>2, <3>1, <3>2
  <2>5. ASSUME r # <<>>, NEW c \in BOOLEAN PROVE SendsContent([s EXCEPT !.todo = r, !.checked = c])
    <3>1. [s EXCEPT !.todo = r, !.checked = c].todo = r
      BY <1>1 DEF Sender
    <3> QED
      BY <2>4, <2>5, <3>1 DEF SendsContent
  <2> QED
    BY <2>4, <2>5
<1>10. ASSUME s.pc = "rest", s.op = "eot"
       PROVE  \/ e = Ev("prompt_end", s.p, None) /\ r = <<>>
              \/ /\ e.ev = "end" /\ e.b \in Names /\ r = <<Ev("prompt_end", s.p, None)>>
                 /\ \A c \in BOOLEAN : EndsTurn([s EXCEPT !.todo = r, !.checked = c])
  <2>1. EndsTurn(s)
    BY <1>1, <1>10 DEF Shape
  <2>2. CASE s.todo = <<pe>>
    <3>1. e = pe /\ r = <<>>
      BY <2>2
    <3> QED
      BY <3>1 DEF pe
  <2>3. ASSUME NEW b \in Names, s.todo = <<Ev("end", s.p, b), pe>>
        PROVE  /\ e.ev = "end" /\ e.b \in Names /\ r = <<pe>>
               /\ \A c \in BOOLEAN : EndsTurn([s EXCEPT !.todo = r, !.checked = c])
    <3>1. e = Ev("end", s.p, b) /\ r = <<pe>>
      BY <2>3, Lists
    <3>2. e.ev = "end" /\ e.b = b
      BY <3>1 DEF Ev
    <3>3. ASSUME NEW c \in BOOLEAN PROVE EndsTurn([s EXCEPT !.todo = r, !.checked = c])
      <4>1. [s EXCEPT !.todo = r, !.checked = c].todo = r /\ [s EXCEPT !.todo = r, !.checked = c].p = s.p
        BY <1>1 DEF Sender
      <4> QED
        BY <3>1, <4>1 DEF EndsTurn, pe
    <3> QED
      BY <3>1, <3>2, <3>3
  <2> QED
    BY <2>1, <2>2, <2>3 DEF EndsTurn, pe
<1> QED
  BY <1>3, <1>4, <1>5, <1>7, <1>8, <1>9, <1>10

\* A step of one sender, seen from the others.
SentBy(t) ==
  /\ sender' = [sender EXCEPT ![t] = sender'[t]] /\ sender'[t] \in Sender
  /\ Shape(sender[t])' /\ Alone(t)'
  /\ budget' \in Budget /\ promptMu' \in Senders \cup {Nobody}
  /\ prompt' \in [id : Names \cup {None}, eot : BOOLEAN, system : BOOLEAN] /\ audio' \in Names \cup {None}
  /\ ids' \in [p : Names \cup {None}, b : Names \cup {None}] /\ ids.p <= ids'.p /\ ids.b <= ids'.b
  /\ prompt'.id <= ids'.p /\ audio' <= ids'.b
  /\ promptMu' = promptMu \/ promptMu \in {t, Nobody}
  /\ prompt'.id = prompt.id \/ promptMu = t
  /\ prompt'.system = prompt.system \/ prompt'.system \/ promptMu = t
  /\ budget'.sends <= budget.sends

Named == [p : Names \cup {None}, b : Names \cup {None}]

LEMMA Sent ==
  ASSUME TypeInv
  PROVE  /\ budget \in Budget /\ budget.sends \in 0 .. MaxSends /\ budget.failures \in Nat
         /\ prompt \in [id : Names \cup {None}, eot : BOOLEAN, system : BOOLEAN]
         /\ prompt.id \in Names \cup {None}
         /\ audio \in Names \cup {None} /\ promptMu \in Senders \cup {Nobody}
         /\ ids \in Named /\ ids.p \in 0 .. MaxSends /\ ids.b \in 0 .. MaxSends
         /\ prompt.id <= ids.p /\ audio <= ids.b
         /\ \A t \in Senders : sender[t] \in Sender /\ Shape(sender[t]) /\ Alone(t)
         /\ sender \in [Senders -> Sender]
<1>1. budget.sends \in 0 .. MaxSends /\ budget.failures \in Nat
  BY DEF TypeInv, TypeOK, SendType, Budget
<1>2. ids \in Named
  BY DEF TypeInv, TypeOK, SendType, Named
<1>3. ids.p \in 0 .. MaxSends /\ ids.b \in 0 .. MaxSends
  BY <1>2, Bounds DEF Named
<1> QED
  BY <1>1, <1>2, <1>3 DEF TypeInv, TypeOK, SendType, Shapes

LEMMA CountedFinite ==
  ASSUME TypeInv
  PROVE  /\ IsFiniteSet(WillOpen) /\ IsFiniteSet(WillClaim)
         /\ Cardinality(WillOpen) \in Nat /\ Cardinality(WillClaim) \in Nat
<1>1. WillOpen \in SUBSET Senders /\ WillClaim \in SUBSET Senders
  BY DEF WillOpen, WillClaim
<1> QED
  BY <1>1, Bounds, FS_Subset, FS_CardinalityType

\* Who has not opened its prompt, or claimed its block, has a name left for it.
LEMMA NamesLeft ==
  ASSUME TypeInv, NEW t \in Senders
  PROVE  /\ t \in WillOpen => ids.p + 1 \in Names
         /\ t \in WillClaim => ids.b + 1 \in Names
<1>1. t \in WillOpen => Cardinality(WillOpen) >= 1
  BY CountedFinite, FS_EmptySet
<1>2. t \in WillClaim => Cardinality(WillClaim) >= 1
  BY CountedFinite, FS_EmptySet
<1>3. /\ ids.p + Cardinality(WillOpen) + budget.sends <= MaxSends
      /\ ids.b + Cardinality(WillClaim) + budget.sends <= MaxSends
  BY DEF TypeInv, Counted
<1>4. /\ ids.p \in Nat /\ ids.b \in Nat /\ budget.sends \in Nat /\ MaxSends \in Nat
      /\ Cardinality(WillOpen) \in Nat /\ Cardinality(WillClaim) \in Nat
  BY Sent, Bounds, CountedFinite
<1>5. \A n \in Nat : n >= 1 /\ n <= MaxSends => n \in Names
  BY Bounds
<1> QED
  BY <1>1, <1>2, <1>3, <1>4, <1>5

LEMMA OpensSystem ==
  ASSUME NEW p \in Names
  PROVE  <<Ev("prompt_start", p, None)>> \o
           <<Ev("system_start", p, None), Ev("system_text", p, None), Ev("system_end", p, None)>> =
         <<Ev("prompt_start", p, None), Ev("system_start", p, None), Ev("system_text", p, None), Ev("system_end", p, None)>>
<1> DEFINE ps == Ev("prompt_start", p, None)
           ss == Ev("system_start", p, None)
           st == Ev("system_text", p, None)
           se == Ev("system_end", p, None)
<1>1. ps \in Event /\ ss \in Event /\ st \in Event /\ se \in Event
  BY Evs
<1> HIDE DEF ps, ss, st, se
<1>2. <<ps>> \o <<ss, st, se>> = <<ps, ss, st, se>>
  BY <1>1, JoinsThree
<1> QED
  BY <1>2 DEF ps, ss, st, se

LEMMA SenderStep ==
  ASSUME TypeInv, NEW t \in Senders, Begin(t) \/ EndOfTurn(t) \/ SendStep(t)
  PROVE  SentBy(t)
<1>1. /\ budget \in Budget /\ budget.sends \in 0 .. MaxSends /\ budget.failures \in Nat
      /\ prompt \in [id : Names \cup {None}, eot : BOOLEAN, system : BOOLEAN]
      /\ prompt.id \in Names \cup {None}
      /\ audio \in Names \cup {None} /\ promptMu \in Senders \cup {Nobody}
      /\ ids \in Named /\ ids.p \in 0 .. MaxSends /\ ids.b \in 0 .. MaxSends
      /\ prompt.id <= ids.p /\ audio <= ids.b
      /\ sender[t] \in Sender /\ Shape(sender[t]) /\ Alone(t) /\ sender \in [Senders -> Sender]
  BY Sent
<1>2. MaxSends \in Nat /\ Names = 1 .. MaxSends /\ None = 0 /\ None \notin Names /\ Nobody \notin Senders
  BY Bounds
<1>3. /\ Idle \in Sender /\ Idle.pc = "idle" /\ Idle.todo = <<>> /\ Idle.op = "eot"
      /\ <<>> \in Seq(Event)
  BY <1>2 DEF Idle, Sender, Op
<1>4. ASSUME NEW s \in Sender, Becomes(t, s)
      PROVE  sender' = [sender EXCEPT ![t] = sender'[t]] /\ sender'[t] = s
  BY <1>1, <1>4 DEF Becomes
<1>a. ASSUME sender' = [sender EXCEPT ![t] = sender'[t]], sender'[t] \in Sender, Shape(sender[t])', Alone(t)',
             budget' \in Budget, budget'.sends <= budget.sends, UNCHANGED <<prompt, audio, promptMu, ids>>
      PROVE  SentBy(t)
  BY <1>1, <1>a DEF SentBy, Named
<1>b. budget.sends <= budget.sends
  BY <1>1
<1>5. CASE Begin(t)
  <2>1. PICK op \in budget.ops \ {"eot"} :
          Becomes(t, [Idle EXCEPT !.op = op, !.pc = IF prompt.id # None THEN "body" ELSE "wait"])
    BY <1>5 DEF Begin
  <2> DEFINE s == [Idle EXCEPT !.op = op, !.pc = IF prompt.id # None THEN "body" ELSE "wait"]
  <2>2. op \in Op \ {"eot"}
    BY <1>1 DEF Budget
  <2>3. s \in Sender /\ s.pc \in {"body", "wait"} /\ s.op = op /\ s.todo = <<>>
    BY <1>2, <1>3, <2>2 DEF Idle, Sender
  <2>4. sender' = [sender EXCEPT ![t] = sender'[t]] /\ sender'[t] = s
    BY <1>4, <2>1, <2>3
  <2> HIDE DEF s
  <2>5. budget' \in Budget /\ budget'.sends <= budget.sends /\ UNCHANGED <<prompt, audio, promptMu, ids>>
    <3>1. budget' = [budget EXCEPT !.sends = @ - 1] /\ budget.sends > 0 /\ UNCHANGED <<prompt, audio, promptMu, ids>>
      BY <1>5 DEF Begin
    <3>2. budget.sends - 1 \in 0 .. MaxSends /\ budget.sends - 1 <= budget.sends
      BY <1>1, <1>2, <3>1
    <3> QED
      BY <1>1, <3>1, <3>2 DEF Budget
  <2>6. Shape(sender[t])' /\ Alone(t)'
    BY <2>2, <2>3, <2>4 DEF Shape, Alone
  <2> QED
    BY <1>a, <2>3, <2>4, <2>5, <2>6
<1>6. CASE Lock(t)
  <2> DEFINE s == Next_(t, "recheck")
  <2>1. s \in Sender /\ s.pc = "recheck" /\ s.op = sender[t].op /\ s.todo = <<>>
    BY <1>1, <1>3 DEF Next_, Sender
  <2>2. sender[t].op # "eot"
    BY <1>1, <1>6 DEF Shape, Lock
  <2>3. sender' = [sender EXCEPT ![t] = sender'[t]] /\ sender'[t] = s
    BY <1>4, <1>6, <2>1 DEF Lock
  <2> HIDE DEF s
  <2>4. UNCHANGED <<budget, prompt, audio, ids>> /\ promptMu' = t /\ promptMu = Nobody
    BY <1>6 DEF Lock
  <2>5. Shape(sender[t])' /\ Alone(t)'
    BY <2>1, <2>2, <2>3, <2>4 DEF Shape, Alone
  <2> QED
    BY <1>1, <2>1, <2>3, <2>4, <2>5 DEF SentBy, Named
<1>7. CASE AlreadyOpen(t)
  <2> DEFINE s == Next_(t, "body")
  <2>1. s \in Sender /\ s.pc = "body" /\ s.op = sender[t].op /\ s.todo = <<>>
    BY <1>1, <1>3 DEF Next_, Sender
  <2>2. sender[t].op # "eot" /\ promptMu = t
    BY <1>1, <1>7 DEF Shape, Alone, AlreadyOpen
  <2>3. sender' = [sender EXCEPT ![t] = sender'[t]] /\ sender'[t] = s
    BY <1>4, <1>7, <2>1 DEF AlreadyOpen
  <2> HIDE DEF s
  <2>4. UNCHANGED <<budget, prompt, audio, ids>> /\ promptMu' = Nobody
    BY <1>7 DEF AlreadyOpen
  <2>5. Shape(sender[t])' /\ Alone(t)'
    BY <2>1, <2>2, <2>3, <2>4 DEF Shape, Alone
  <2> QED
    BY <1>1, <2>1, <2>2, <2>3, <2>4, <2>5 DEF SentBy, Named
<1>8. CASE Open(t)
  <2> DEFINE p == ids.p + 1
             todo == <<Ev("prompt_start", p, None)>> \o (IF prompt.system THEN <<>> ELSE System(p))
             s == [Writing(t, "open", todo) EXCEPT !.p = p, !.sys = ~prompt.system]
  <2>1. ids'.p = p /\ ids'.b = ids.b /\ ids' \in Named /\ p \in Names
    <3>1. t \in WillOpen
      BY <1>8 DEF Open, WillOpen
    <3>2. p \in Names
      BY <3>1, NamesLeft
    <3> QED
      BY <1>1, <1>8, <3>2 DEF Open, Named
  <2>2. \/ prompt.system /\ todo = <<Ev("prompt_start", p, None)>>
        \/ /\ ~prompt.system
           /\ todo = <<Ev("prompt_start", p, None), Ev("system_start", p, None), Ev("system_text", p, None), Ev("system_end", p, None)>>
    <3>1. /\ Ev("prompt_start", p, None) \in Event /\ Ev("system_start", p, None) \in Event
          /\ Ev("system_text", p, None) \in Event /\ Ev("system_end", p, None) \in Event
      BY <2>1, Evs
    <3>2. CASE prompt.system
      <4>1. todo = <<Ev("prompt_start", p, None)>> \o <<>>
        BY <3>2
      <4> QED
        BY <3>1, <3>2, <4>1, Joins
    <3>3. CASE ~prompt.system
      <4>1. todo = <<Ev("prompt_start", p, None)>> \o
                   <<Ev("system_start", p, None), Ev("system_text", p, None), Ev("system_end", p, None)>>
        BY <3>3 DEF System
      <4>2. todo = <<Ev("prompt_start", p, None), Ev("system_start", p, None), Ev("system_text", p, None), Ev("system_end", p, None)>>
        BY <2>1, <4>1, OpensSystem
      <4> QED
        BY <3>3, <4>2
    <3> QED
      BY <3>2, <3>3
  <2>3. todo \in Seq(Event)
    <3>1. /\ Ev("prompt_start", p, None) \in Event /\ Ev("system_start", p, None) \in Event
          /\ Ev("system_text", p, None) \in Event /\ Ev("system_end", p, None) \in Event
      BY <2>1, Evs
    <3>2. /\ <<Ev("prompt_start", p, None)>> \in Seq(Event)
          /\ <<Ev("prompt_start", p, None), Ev("system_start", p, None), Ev("system_text", p, None), Ev("system_end", p, None)>>
                \in Seq(Event)
      BY <3>1
    <3> QED
      BY <2>2, <3>2
  <2>4. prompt.system \in BOOLEAN
    BY <1>1
  <2> HIDE DEF todo, p
  <2>5. s \in Sender /\ s.pc = "open" /\ s.op = sender[t].op /\ s.todo = todo /\ s.p = p /\ s.sys = ~prompt.system
    BY <1>1, <2>1, <2>3, <2>4 DEF Writing, Sender
  <2>6. sender[t].op # "eot" /\ promptMu = t /\ prompt.id = None
    BY <1>1, <1>8 DEF Shape, Alone, Open, Recheck
  <2>7. Becomes(t, s)
    BY <1>8, <2>1 DEF Open, p, todo
  <2>8. sender' = [sender EXCEPT ![t] = sender'[t]] /\ sender'[t] = s
    BY <1>4, <2>5, <2>7
  <2> HIDE DEF s
  <2>9. UNCHANGED <<budget, audio, promptMu>> /\ prompt' = [prompt EXCEPT !.system = TRUE]
    BY <1>8 DEF Open
  <2>10. prompt'.id = None /\ prompt'.system
    BY <1>1, <2>6, <2>9
  <2>11. Opens(s)
    BY <2>2, <2>5 DEF Opens
  <2>12. p \in 1 .. ids'.p /\ ids.p <= ids'.p
    BY <1>1, <1>2, <2>1 DEF p
  <2>13. Shape(sender[t])' /\ Alone(t)'
    BY <2>5, <2>6, <2>8, <2>9, <2>10, <2>11, <2>12 DEF Shape, Alone
  <2>14. /\ prompt' \in [id : Names \cup {None}, eot : BOOLEAN, system : BOOLEAN]
         /\ prompt'.id <= ids'.p /\ prompt'.id = prompt.id
    <3>1. prompt' \in [id : Names \cup {None}, eot : BOOLEAN, system : BOOLEAN]
      BY <1>1, <2>9
    <3> QED
      BY <1>1, <1>2, <2>1, <2>6, <2>10, <2>12, <3>1
  <2>15. budget' \in Budget /\ budget'.sends <= budget.sends /\ promptMu' \in Senders \cup {Nobody} /\ audio' \in Names \cup {None}
         /\ ids.b <= ids'.b /\ audio' <= ids'.b
    BY <1>1, <2>1, <2>9
  <2> QED
    BY <2>1, <2>5, <2>6, <2>8, <2>10, <2>12, <2>13, <2>14, <2>15 DEF SentBy, Named
<1>9. CASE Opened(t)
  <2> DEFINE s == Next_(t, "body")
  <2>1. s \in Sender /\ s.pc = "body" /\ s.op = sender[t].op /\ s.todo = <<>>
    BY <1>1, <1>3 DEF Next_, Sender
  <2>2. sender[t].op # "eot" /\ promptMu = t /\ sender[t].p \in 1 .. ids.p /\ sender[t].p \in Names
    BY <1>1, <1>2, <1>9 DEF Shape, Alone, Opened
  <2>3. sender' = [sender EXCEPT ![t] = sender'[t]] /\ sender'[t] = s
    BY <1>4, <1>9, <2>1 DEF Opened
  <2> HIDE DEF s
  <2>4. /\ UNCHANGED <<budget, audio, ids>> /\ promptMu' = Nobody
        /\ prompt' = [prompt EXCEPT !.id = sender[t].p, !.eot = FALSE]
    BY <1>9 DEF Opened
  <2>5. Shape(sender[t])' /\ Alone(t)'
    BY <2>1, <2>2, <2>3, <2>4 DEF Shape, Alone
  <2>6. /\ prompt' \in [id : Names \cup {None}, eot : BOOLEAN, system : BOOLEAN]
        /\ prompt'.id = sender[t].p
    BY <1>1, <2>2, <2>4
  <2>7. prompt'.id <= ids'.p /\ ids.p <= ids'.p /\ ids.b <= ids'.b /\ audio' <= ids'.b /\ ids' \in Named
        /\ budget' \in Budget /\ budget'.sends <= budget.sends /\ audio' \in Names \cup {None}
    BY <1>1, <1>2, <2>2, <2>4, <2>6
  <2> QED
    BY <2>1, <2>2, <2>3, <2>4, <2>5, <2>6, <2>7 DEF SentBy, Named
<1>10. CASE Claim(t)
  <2> DEFINE b == ids.b + 1
             todo == <<Ev("start", prompt.id, b)>>
             s == [Writing(t, "claim", todo) EXCEPT !.p = prompt.id, !.b = b]
  <2>1. ids'.p = ids.p /\ ids'.b = b /\ ids' \in Named /\ b \in Names
    <3>1. t \in WillClaim
      BY <1>10 DEF Claim, WillClaim
    <3>2. b \in Names
      BY <3>1, NamesLeft
    <3> QED
      BY <1>1, <1>10, <3>2 DEF Claim, Named
  <2>2. todo \in Seq(Event)
    <3>1. Ev("start", prompt.id, b) \in Event
      BY <1>1, <2>1, Evs
    <3> QED
      BY <3>1
  <2> HIDE DEF todo, b
  <2>3. s \in Sender /\ s.pc = "claim" /\ s.op = "audio" /\ s.todo = todo /\ s.p = prompt.id /\ s.b = b
    BY <1>1, <1>10, <2>1, <2>2 DEF Writing, Sender, Claim
  <2>4. Becomes(t, s) /\ UNCHANGED <<budget, prompt, promptMu>> /\ audio' = b
    BY <1>10, <2>1 DEF Claim, todo
  <2>5. sender' = [sender EXCEPT ![t] = sender'[t]] /\ sender'[t] = s
    BY <1>4, <2>3, <2>4
  <2> HIDE DEF s
  <2>6. Shape(sender[t])' /\ Alone(t)'
    BY <2>3, <2>5 DEF Shape, Alone, todo
  <2>7. ids.b <= b
    BY <1>1 DEF b
  <2> QED
    BY <1>1, <1>2, <2>1, <2>3, <2>4, <2>5, <2>6, <2>7 DEF SentBy, Named
<1>11. ASSUME NEW p \in Names \cup {None}, NEW b \in Names \cup {None}, sender[t].op = "audio", Becomes(t, Raw(t, p, b))
       PROVE  /\ sender' = [sender EXCEPT ![t] = sender'[t]] /\ sender'[t] \in Sender
              /\ Shape(sender[t])' /\ Alone(t)'
  <2> DEFINE s == Raw(t, p, b)
  <2>1. <<Ev("audio", p, b)>> \in Seq(Event)
    BY Evs
  <2>2. s \in Sender /\ s.pc = "raw" /\ s.op = "audio"
    BY <1>1, <1>11, <2>1 DEF Raw, Writing, Sender
  <2>3. s.todo = <<Ev("audio", p, b)>> /\ s.p = p /\ s.b = b
    BY <1>1, <2>1 DEF Raw, Writing, Sender
  <2>4. sender' = [sender EXCEPT ![t] = sender'[t]] /\ sender'[t] = s
    BY <1>4, <1>11, <2>2
  <2> HIDE DEF s
  <2> QED
    BY <2>2, <2>3, <2>4 DEF Shape, Alone
<1>12. CASE Join(t)
  <2>1. Becomes(t, Raw(t, prompt.id, audio)) /\ UNCHANGED <<budget, prompt, audio, promptMu, ids>>
    BY <1>12 DEF Join
  <2>2. sender[t].op = "audio"
    BY <1>12 DEF Join
  <2> QED
    BY <1>1, <1>a, <1>b, <1>11, <2>1, <2>2
<1>13. CASE Claimed(t)
  <2>1. Becomes(t, Raw(t, sender[t].p, sender[t].b)) /\ UNCHANGED <<budget, prompt, audio, promptMu, ids>>
    BY <1>13 DEF Claimed
  <2>2. sender[t].p \in Names \cup {None} /\ sender[t].b \in Names \cup {None} /\ sender[t].op = "audio"
    BY <1>1, <1>13 DEF Sender, Shape, Claimed
  <2> QED
    BY <1>1, <1>a, <1>b, <1>11, <2>1, <2>2
<1>14. CASE Content(t)
  <2> DEFINE todo == <<Ev("start", prompt.id, None), Ev("content", prompt.id, None)>>
             s == Writing(t, "rest", todo)
  <2>1. todo \in Seq(Event)
    <3>1. Ev("start", prompt.id, None) \in Event /\ Ev("content", prompt.id, None) \in Event
      BY <1>1, Evs
    <3> QED
      BY <3>1
  <2> HIDE DEF todo
  <2>2. s \in Sender /\ s.pc = "rest" /\ s.op = sender[t].op /\ s.todo = todo
    BY <1>1, <2>1 DEF Writing, Sender
  <2>3. sender[t].op # "eot"
    BY <1>14 DEF Content
  <2>4. Becomes(t, s) /\ UNCHANGED <<budget, prompt, audio, promptMu, ids>>
    BY <1>14 DEF Content, todo
  <2>5. sender' = [sender EXCEPT ![t] = sender'[t]] /\ sender'[t] = s
    BY <1>4, <2>2, <2>4
  <2> HIDE DEF s
  <2>6. SendsContent(s)
    BY <1>1, <2>2 DEF SendsContent, todo
  <2>7. Shape(sender[t])' /\ Alone(t)'
    BY <2>2, <2>3, <2>5, <2>6 DEF Shape, Alone
  <2> QED
    BY <1>1, <1>a, <1>b, <2>2, <2>4, <2>5, <2>7
<1>15. CASE SendCheck(t)
  <2> DEFINE s == [sender[t] EXCEPT !.checked = TRUE]
  <2>1. /\ s \in Sender /\ s.pc = sender[t].pc /\ s.op = sender[t].op /\ s.todo = sender[t].todo
        /\ s.p = sender[t].p /\ s.b = sender[t].b /\ s.sys = sender[t].sys
    BY <1>1 DEF Sender
  <2>2. Becomes(t, s) /\ UNCHANGED <<budget, prompt, audio, promptMu, ids>> /\ sender[t].pc # "idle"
    BY <1>15 DEF SendCheck
  <2>3. sender' = [sender EXCEPT ![t] = sender'[t]] /\ sender'[t] = s
    BY <1>4, <2>1, <2>2
  <2> HIDE DEF s
  <2>4. Shape(sender[t])' /\ Alone(t)'
    BY <1>1, <2>1, <2>2, <2>3 DEF Shape, Alone, Opens, EndsTurn, SendsContent
  <2> QED
    BY <1>1, <1>a, <1>b, <2>1, <2>2, <2>3, <2>4
<1>16. CASE Write(t)
  <2> DEFINE r == Tail(sender[t].todo)
             s == [sender[t] EXCEPT !.todo = r, !.checked = FALSE]
  <2>1. sender[t].todo # <<>>
    BY <1>16 DEF Write, AtWrite
  <2>2. /\ r \in Seq(Event) /\ sender[t].pc \in {"open", "claim", "raw", "rest"}
        /\ sender[t].pc = "open" => Opens(s)
        /\ sender[t].pc \in {"claim", "raw"} => r = <<>>
        /\ sender[t].pc = "rest" /\ sender[t].op # "eot" /\ r # <<>> => SendsContent(s)
        /\ sender[t].pc = "rest" /\ sender[t].op = "eot" /\ r # <<>> => EndsTurn(s)
    BY <2>1, Todo
  <2>3. /\ s \in Sender /\ s.pc = sender[t].pc /\ s.op = sender[t].op /\ s.todo = r
        /\ s.p = sender[t].p /\ s.b = sender[t].b
    BY <1>1, <2>2 DEF Sender
  <2>4. /\ Becomes(t, IF r = <<>> /\ sender[t].pc \in {"raw", "rest"} THEN Idle ELSE s)
        /\ UNCHANGED <<budget, prompt, audio, promptMu, ids>>
    BY <1>16 DEF Write, Writes
  <2> HIDE DEF r, s
  <2>5. CASE r = <<>> /\ sender[t].pc \in {"raw", "rest"}
    <3>1. sender' = [sender EXCEPT ![t] = sender'[t]] /\ sender'[t] = Idle
      BY <1>3, <1>4, <2>4, <2>5
    <3>2. Shape(sender[t])' /\ Alone(t)'
      BY <1>3, <3>1 DEF Shape, Alone
    <3> QED
      BY <1>1, <1>3, <1>a, <1>b, <2>4, <3>1, <3>2
  <2>6. CASE ~(r = <<>> /\ sender[t].pc \in {"raw", "rest"})
    <3>1. sender' = [sender EXCEPT ![t] = sender'[t]] /\ sender'[t] = s
      BY <1>4, <2>3, <2>4, <2>6
    <3>2. Shape(sender[t])' /\ Alone(t)'
      BY <1>1, <2>2, <2>3, <2>4, <2>6, <3>1 DEF Shape, Alone
    <3> QED
      BY <1>1, <1>a, <1>b, <2>3, <2>4, <3>1, <3>2
  <2> QED
    BY <2>5, <2>6
<1>17. ASSUME Aborts(t), sender[t].todo # <<>>, budget' \in Budget, budget'.sends <= budget.sends
       PROVE  SentBy(t)
  <2>1. sender' = [sender EXCEPT ![t] = sender'[t]] /\ sender'[t] = Idle
    BY <1>3, <1>4, <1>17 DEF Aborts
  <2>2. ids' = ids /\ audio' \in {audio, None}
    BY <1>17 DEF Aborts
  <2>3. /\ prompt' = prompt \/ (prompt' = [prompt EXCEPT !.system = FALSE] /\ sender[t].pc = "open")
        /\ promptMu' = promptMu \/ (promptMu' = Nobody /\ sender[t].pc = "open")
    BY <1>17 DEF Aborts, Unlocks
  <2>4. sender[t].pc = "open" => promptMu = t
    BY <1>1 DEF Alone
  <2>5. Shape(sender[t])' /\ Alone(t)'
    BY <1>3, <2>1 DEF Shape, Alone
  <2>6. prompt' \in [id : Names \cup {None}, eot : BOOLEAN, system : BOOLEAN] /\ prompt'.id = prompt.id
    BY <1>1, <2>3
  <2>7. /\ ids' \in Named /\ ids.p <= ids'.p /\ ids.b <= ids'.b /\ prompt'.id <= ids'.p
        /\ audio' <= ids'.b /\ audio' \in Names \cup {None}
    BY <1>1, <1>2, <2>2, <2>6
  <2>8. promptMu' \in Senders \cup {Nobody} /\ (promptMu' = promptMu \/ promptMu = t)
    BY <1>1, <2>3, <2>4
  <2>9. prompt'.system = prompt.system \/ promptMu = t
    BY <2>3, <2>4
  <2> QED
    BY <1>3, <1>17, <2>1, <2>5, <2>6, <2>7, <2>8, <2>9 DEF SentBy, Named
<1>18. CASE SendRefused(t)
  <2>1. Aborts(t) /\ sender[t].todo # <<>> /\ budget' = budget
    BY <1>18 DEF SendRefused
  <2> QED
    BY <1>1, <1>b, <1>17, <2>1
<1>19. CASE SendFails(t)
  <2>1. Aborts(t) /\ sender[t].todo # <<>> /\ WriteFails
    BY <1>19 DEF SendFails, AtWrite
  <2>2. \/ budget' = budget
        \/ budget.failures > 0 /\ budget' = [budget EXCEPT !.failures = @ - 1]
    BY <2>1 DEF WriteFails
  <2>3. budget' \in Budget /\ budget'.sends <= budget.sends
    <3>1. CASE budget' = budget
      BY <1>1, <1>b, <3>1
    <3>2. CASE budget.failures > 0 /\ budget' = [budget EXCEPT !.failures = @ - 1]
      <4>1. budget.failures - 1 \in Nat
        BY <1>1, <3>2
      <4>2. budget' \in Budget /\ budget'.sends = budget.sends
        BY <1>1, <3>2, <4>1 DEF Budget
      <4> QED
        BY <1>b, <4>2
    <3> QED
      BY <2>2, <3>1, <3>2
  <2> QED
    BY <1>17, <2>1, <2>3
<1>20. CASE EndOfTurn(t)
  <2> DEFINE pe == Ev("prompt_end", prompt.id, None)
             be == Ev("end", prompt.id, audio)
             todo == (IF audio = None THEN <<>> ELSE <<be>>) \o <<pe>>
             s == [Writing(t, "rest", todo) EXCEPT !.op = "eot", !.p = prompt.id]
  <2>1. prompt.id \in Names /\ prompt.id \in 1 .. ids.p
    BY <1>1, <1>2, <1>20 DEF EndOfTurn
  <2>2. pe \in Event /\ be \in Event
    BY <1>1, <2>1, Evs
  <2>3. \/ todo = <<pe>> \/ (audio \in Names /\ todo = <<be, pe>>)
    <3>1. CASE audio = None
      <4>1. todo = <<>> \o <<pe>>
        BY <3>1
      <4> QED
        BY <2>2, <4>1, Joins
    <3>2. CASE audio # None
      <4>1. todo = <<be>> \o <<pe>> /\ audio \in Names
        BY <1>1, <3>2
      <4> QED
        BY <2>2, <4>1, Joins
    <3> QED
      BY <3>1, <3>2
  <2>4. todo \in Seq(Event)
    <3>1. <<pe>> \in Seq(Event) /\ <<be, pe>> \in Seq(Event)
      BY <2>2
    <3> QED
      BY <2>3, <3>1
  <2>5. Becomes(t, s) /\ UNCHANGED <<promptMu, ids>>
    BY <1>20 DEF EndOfTurn
  <2>6. EndsTurn([sender[t] EXCEPT !.todo = todo, !.p = prompt.id])
    <3>1. /\ [sender[t] EXCEPT !.todo = todo, !.p = prompt.id].todo = todo
          /\ [sender[t] EXCEPT !.todo = todo, !.p = prompt.id].p = prompt.id
      BY <1>1, <2>1 DEF Sender
    <3> QED
      BY <2>3, <3>1 DEF EndsTurn
  <2> HIDE DEF todo
  <2>7. s \in Sender /\ s.pc = "rest" /\ s.op = "eot" /\ s.todo = todo /\ s.p = prompt.id
    BY <1>1, <2>1, <2>4 DEF Writing, Sender, Op
  <2>8. sender' = [sender EXCEPT ![t] = sender'[t]] /\ sender'[t] = s
    BY <1>4, <2>5, <2>7
  <2> HIDE DEF s
  <2>9. EndsTurn(s)
    <3>1. /\ [sender[t] EXCEPT !.todo = todo, !.p = prompt.id].todo = todo
          /\ [sender[t] EXCEPT !.todo = todo, !.p = prompt.id].p = prompt.id
      BY <1>1, <2>1 DEF Sender
    <3> QED
      BY <2>6, <2>7, <3>1 DEF EndsTurn
  <2>10. Shape(sender[t])' /\ Alone(t)'
    BY <2>1, <2>5, <2>7, <2>8, <2>9 DEF Shape, Alone
  <2>11. budget' \in Budget /\ budget'.sends <= budget.sends
    <3>1. budget' = [budget EXCEPT !.sends = @ - 1] /\ budget.sends > 0
      BY <1>20 DEF EndOfTurn
    <3>2. budget.sends - 1 \in 0 .. MaxSends /\ budget.sends - 1 <= budget.sends
      BY <1>1, <1>2, <3>1
    <3> QED
      BY <1>1, <3>1, <3>2 DEF Budget
  <2>12. /\ prompt' \in [id : Names \cup {None}, eot : BOOLEAN, system : BOOLEAN]
         /\ prompt'.id = prompt.id /\ prompt'.system = prompt.system /\ audio' = None
    BY <1>1, <1>20 DEF EndOfTurn
  <2>13. prompt'.id <= ids'.p /\ audio' <= ids'.b /\ ids.p <= ids'.p /\ ids.b <= ids'.b /\ ids' \in Named
    BY <1>1, <1>2, <2>5, <2>12
  <2> QED
    BY <1>1, <2>5, <2>7, <2>8, <2>10, <2>11, <2>12, <2>13 DEF SentBy, Named
<1> QED
  BY <1>5, <1>6, <1>7, <1>8, <1>9, <1>10, <1>12, <1>13, <1>14, <1>15, <1>16, <1>18, <1>19, <1>20 DEF SendStep

(***************************************************************************)
(* The steps of the senders, and those of the others.                      *)
(***************************************************************************)
Sends(t) == Begin(t) \/ EndOfTurn(t) \/ SendStep(t)

LEMMA NextCases ==
  ASSUME [Next]_vars
  PROVE  \/ \E t \in Senders : Sends(t)
         \/ Close \/ CloseBlock \/ ClosePrompt \/ CloseSession \/ CloseWrite \/ HangUp
         \/ ReadEvent \/ Emit \/ Reset \/ LoopStops \/ StreamEnds \/ Receive
         \/ UNCHANGED vars
BY DEF Next, CloseStep, LoopStep, Sends

LEMMA SendsAlone ==
  ASSUME NEW t \in Senders, Sends(t)
  PROVE  UNCHANGED <<closed, closer, loop, server, recv, got>>
<1>1. CASE Begin(t)
  BY <1>1 DEF Begin, Sending, Receiving
<1>2. CASE EndOfTurn(t)
  BY <1>2 DEF EndOfTurn, Sending, Receiving
<1>3. CASE Lock(t) \/ AlreadyOpen(t)
  BY <1>3 DEF Lock, AlreadyOpen, Sending, Receiving
<1>4. CASE Open(t)
  BY <1>4 DEF Open, Sending, Receiving
<1>5. CASE Opened(t)
  BY <1>5 DEF Opened, Sending, Receiving
<1>6. CASE Claim(t)
  BY <1>6 DEF Claim, Sending, Receiving
<1>7. CASE Join(t) \/ Claimed(t)
  BY <1>7 DEF Join, Claimed, Sending, Receiving
<1>8. CASE Content(t)
  BY <1>8 DEF Content, Sending, Receiving
<1>9. CASE SendCheck(t)
  BY <1>9 DEF SendCheck, Sending, Receiving
<1>10. CASE Write(t)
  BY <1>10 DEF Write, Sending, Receiving
<1>11. CASE SendRefused(t)
  BY <1>11 DEF SendRefused, Aborts, Sending, Receiving
<1>12. CASE SendFails(t)
  BY <1>12 DEF SendFails, Aborts, Sending, Receiving
<1> QED
  BY <1>1, <1>2, <1>3, <1>4, <1>5, <1>6, <1>7, <1>8, <1>9, <1>10, <1>11, <1>12 DEF Sends, SendStep

\* What Close, the receive loop and the reader do to the senders.
Aside ==
  /\ UNCHANGED <<sender, promptMu, ids>> /\ audio' \in {audio, None}
  /\ prompt' \in [id : Names \cup {None}, eot : BOOLEAN, system : BOOLEAN]
  /\ prompt'.id \in {prompt.id, None} /\ prompt'.system = prompt.system
  /\ budget' \in Budget /\ budget'.sends <= budget.sends

LEMMA AsideStep ==
  ASSUME TypeInv,
         \/ Close \/ CloseBlock \/ ClosePrompt \/ CloseSession \/ CloseWrite \/ HangUp
         \/ ReadEvent \/ Emit \/ Reset \/ LoopStops \/ StreamEnds \/ Receive
         \/ UNCHANGED vars
  PROVE  Aside
<1>1. /\ budget \in Budget /\ budget.sends \in 0 .. MaxSends /\ budget.failures \in Nat /\ MaxSends \in Nat
      /\ prompt \in [id : Names \cup {None}, eot : BOOLEAN, system : BOOLEAN]
  BY Sent, Bounds
<1>2. budget.sends <= budget.sends
  BY <1>1
<1>3. CASE Close \/ CloseBlock
  BY <1>1, <1>2, <1>3 DEF Close, CloseBlock, Closing, Aside
<1>4. CASE ClosePrompt
  <2>1. prompt' = [prompt EXCEPT !.id = None] /\ UNCHANGED <<sender, promptMu, ids, audio, budget>>
    BY <1>4 DEF ClosePrompt, Closing
  <2> QED
    BY <1>1, <1>2, <2>1 DEF Aside
<1>5. CASE CloseSession
  BY <1>1, <1>2, <1>5 DEF CloseSession, Closing, Aside
<1>6. CASE CloseWrite
  <2>1. UNCHANGED <<sender, promptMu, ids, audio, prompt>>
    BY <1>6 DEF CloseWrite, Closing
  <2>2. budget' = budget \/ (budget.failures > 0 /\ budget' = [budget EXCEPT !.failures = @ - 1])
    BY <1>6 DEF CloseWrite, Writes, WriteFails
  <2>3. budget' \in Budget /\ budget'.sends <= budget.sends
    <3>1. CASE budget' = budget
      BY <1>1, <1>2, <3>1
    <3>2. CASE budget.failures > 0 /\ budget' = [budget EXCEPT !.failures = @ - 1]
      <4>1. budget.failures - 1 \in Nat
        BY <1>1, <3>2
      <4>2. budget' \in Budget /\ budget'.sends = budget.sends
        BY <1>1, <3>2, <4>1 DEF Budget
      <4> QED
        BY <1>2, <4>2
    <3> QED
      BY <2>2, <3>1, <3>2
  <2> QED
    BY <1>1, <2>1, <2>3 DEF Aside
<1>7. CASE HangUp
  BY <1>1, <1>2, <1>7 DEF HangUp, Closing, Aside
<1>8. CASE ReadEvent
  <2>1. UNCHANGED <<sender, promptMu, ids, audio, prompt>>
    BY <1>8 DEF ReadEvent, Looping
  <2>2. budget' \in Budget /\ budget'.sends = budget.sends
    <3>1. PICK e \in ServerSteps :
            /\ budget' = IF e.k = "completion" THEN [budget EXCEPT !.turns = @ - 1] ELSE [budget EXCEPT !.events = @ - 1]
            /\ budget' \in Budget
      BY <1>8 DEF ReadEvent
    <3> QED
      BY <1>1, <3>1 DEF Budget
  <2> QED
    BY <1>1, <1>2, <2>1, <2>2 DEF Aside
<1>9. CASE Emit
  BY <1>1, <1>2, <1>9 DEF Emit, Looping, Aside
<1>10. CASE Reset
  <2>1. prompt' = [prompt EXCEPT !.id = None, !.eot = FALSE] /\ UNCHANGED <<sender, promptMu, ids, budget>> /\ audio' = None
    BY <1>10 DEF Reset, Looping
  <2> QED
    BY <1>1, <1>2, <2>1 DEF Aside
<1>11. CASE LoopStops
  BY <1>1, <1>2, <1>11 DEF LoopStops, Ends, Looping, Aside
<1>12. CASE StreamEnds
  BY <1>1, <1>2, <1>12 DEF StreamEnds, Ends, Looping, Aside
<1>13. CASE Receive
  BY <1>1, <1>2, <1>13 DEF Receive, Aside
<1>14. CASE UNCHANGED vars
  BY <1>1, <1>2, <1>14 DEF vars, Aside
<1> QED
  BY <1>3, <1>4, <1>5, <1>6, <1>7, <1>8, <1>9, <1>10, <1>11, <1>12, <1>13, <1>14

LEMMA StepSends ==
  ASSUME TypeInv, [Next]_vars
  PROVE  (\E t \in Senders : Sends(t) /\ SentBy(t)) \/ Aside
<1>1. ASSUME NEW t \in Senders, Sends(t) PROVE SentBy(t)
  BY <1>1, SenderStep DEF Sends
<1> QED
  BY <1>1, NextCases, AsideStep

LEMMA StepSendType == TypeInv /\ [Next]_vars => SendType' /\ Shapes'
<1> SUFFICES ASSUME TypeInv, [Next]_vars PROVE SendType' /\ Shapes'
  OBVIOUS
<1>1. /\ prompt.id \in Names \cup {None} /\ audio \in Names \cup {None} /\ promptMu \in Senders \cup {Nobody}
      /\ ids \in Named /\ ids.p \in 0 .. MaxSends /\ ids.b \in 0 .. MaxSends
      /\ prompt.id <= ids.p /\ audio <= ids.b
      /\ sender \in [Senders -> Sender]
  BY Sent
<1>2. MaxSends \in Nat /\ Names = 1 .. MaxSends /\ None = 0 /\ Nobody \notin Senders
  BY Bounds
<1>3. ASSUME NEW u \in Senders, sender'[u] = sender[u], ids.p <= ids'.p, ids' \in Named
      PROVE  Shape(sender[u])'
  <2>1. Shape(sender[u]) /\ ids'.p \in Nat /\ ids.p \in Nat
    BY <1>1, <1>2, <1>3, Sent DEF Named
  <2>2. \A n \in 1 .. ids.p : n \in 1 .. ids'.p
    BY <1>3, <2>1
  <2> QED
    BY <1>3, <2>1, <2>2 DEF Shape
<1>4. ASSUME NEW t \in Senders, SentBy(t) PROVE SendType' /\ Shapes'
  <2>1. /\ sender' = [sender EXCEPT ![t] = sender'[t]] /\ sender'[t] \in Sender
        /\ Shape(sender[t])' /\ Alone(t)' /\ ids.p <= ids'.p /\ ids' \in Named
        /\ promptMu' = promptMu \/ promptMu \in {t, Nobody}
        /\ prompt'.id = prompt.id \/ promptMu = t
        /\ prompt'.system = prompt.system \/ prompt'.system \/ promptMu = t
    BY <1>4 DEF SentBy, Named
  <2>2. sender' \in [Senders -> Sender] /\ \A u \in Senders \ {t} : sender'[u] = sender[u]
    BY <1>1, <2>1
  <2>3. SendType'
    BY <1>4, <2>2 DEF SendType, SentBy
  <2>4. ASSUME NEW u \in Senders \ {t} PROVE Shape(sender[u])' /\ Alone(u)'
    <3>1. Shape(sender[u])'
      BY <1>3, <2>1, <2>2
    <3>2. Alone(u) /\ u # t /\ u # Nobody
      BY <1>2, Sent
    <3> QED
      BY <2>1, <2>2, <3>1, <3>2 DEF Alone
  <2>5. prompt'.id <= ids'.p /\ audio' <= ids'.b
    BY <1>4 DEF SentBy
  <2> QED
    BY <2>1, <2>3, <2>4, <2>5 DEF Shapes
<1>5. ASSUME Aside PROVE SendType' /\ Shapes'
  <2>1. SendType'
    BY <1>1, <1>5 DEF SendType, Aside, Named
  <2>2. ASSUME NEW u \in Senders PROVE Shape(sender[u])' /\ Alone(u)'
    <3>1. ids.p <= ids'.p /\ ids' \in Named
      BY <1>1, <1>5 DEF Aside
    <3>2. Shape(sender[u])'
      BY <1>3, <1>5, <3>1 DEF Aside
    <3>3. Alone(u)
      BY Sent
    <3> QED
      BY <1>5, <3>2, <3>3 DEF Alone, Aside
  <2>3. prompt'.id <= ids'.p /\ audio' <= ids'.b
    BY <1>1, <1>2, <1>5 DEF Aside
  <2> QED
    BY <2>1, <2>2, <2>3 DEF Shapes
<1> QED
  BY <1>4, <1>5, StepSends


(***************************************************************************)
(* The event stream.                                                       *)
(***************************************************************************)
EventStream == [open : BOOLEAN, started : SUBSET Names, ends : [Names -> Nat], blockEnds : [Names -> Nat],
                system : Nat, sessionEnds : Nat, failed : BOOLEAN]
Fate == [abandoned : SUBSET Names, completed : SUBSET Names, missed : SUBSET Names]

LEMMA ToldType ==
  ASSUME es \in EventStream, NEW e \in Event, e.ev = "prompt_start" => e.p \in Names
  PROVE  Told(e) \in EventStream /\ Told(e).open = es.open /\ Told(e).failed = es.failed
<1>1. CASE e.ev = "prompt_start"
  <2>1. Told(e) = [es EXCEPT !.started = @ \cup {e.p}]
    BY <1>1 DEF Told
  <2> QED
    BY <1>1, <2>1 DEF EventStream
<1>2. CASE e.ev = "system_text"
  <2>1. Told(e) = [es EXCEPT !.system = @ + 1]
    BY <1>2 DEF Told
  <2> QED
    BY <2>1 DEF EventStream
<1>3. CASE e.ev = "end"
  <2>1. Told(e) = [es EXCEPT !.blockEnds[e.b] = @ + 1]
    BY <1>3 DEF Told
  <2> QED
    BY <2>1 DEF EventStream
<1>4. CASE e.ev = "prompt_end"
  <2>1. Told(e) = [es EXCEPT !.ends[e.p] = @ + 1]
    BY <1>4 DEF Told
  <2> QED
    BY <2>1 DEF EventStream
<1>5. CASE e.ev = "session_end"
  <2>1. Told(e) = [es EXCEPT !.sessionEnds = @ + 1]
    BY <1>5 DEF Told
  <2> QED
    BY <2>1 DEF EventStream
<1>6. CASE e.ev \notin {"prompt_start", "system_text", "end", "prompt_end", "session_end"}
  <2>1. Told(e) = es
    BY <1>6 DEF Told
  <2> QED
    BY <2>1
<1> QED
  BY <1>1, <1>2, <1>3, <1>4, <1>5, <1>6

\* What a sender makes of the event stream: a write, or an error on the way to one.
Wrote(t) == AtWrite(t) /\ es.open /\ es' = Told(Head(sender[t].todo)) /\ fate' = fate
Gives(t) ==
  /\ Aborts(t) /\ sender[t].todo # <<>>
  /\ es' = es \/ (es.open /\ es' = [es EXCEPT !.failed = TRUE])

LEMMA SendEvents ==
  ASSUME NEW t \in Senders, Sends(t)
  PROVE  UNCHANGED <<es, fate>> \/ Wrote(t) \/ Gives(t)
<1>1. CASE Begin(t) \/ EndOfTurn(t)
  BY <1>1 DEF Begin, EndOfTurn
<1>2. CASE Lock(t) \/ AlreadyOpen(t) \/ Open(t) \/ Opened(t)
  BY <1>2 DEF Lock, AlreadyOpen, Open, Opened
<1>3. CASE Claim(t) \/ Join(t) \/ Claimed(t) \/ Content(t) \/ SendCheck(t)
  BY <1>3 DEF Claim, Join, Claimed, Content, SendCheck
<1>4. CASE Write(t)
  BY <1>4 DEF Write, Writes, Wrote
<1>5. CASE SendRefused(t)
  BY <1>5 DEF SendRefused, Gives
<1>6. CASE SendFails(t)
  BY <1>6 DEF SendFails, WriteFails, Gives, AtWrite
<1> QED
  BY <1>1, <1>2, <1>3, <1>4, <1>5, <1>6 DEF Sends, SendStep

LEMMA Closes ==
  ASSUME TypeInv, closer.todo # <<>>
  PROVE  /\ Head(closer.todo) \in Event /\ Head(closer.todo).ev # "prompt_start"
         /\ Head(closer.todo).ev # "system_text"
         /\ closer.pc \in {"prompt", "session", "hang_up"} /\ closed /\ es.open
         /\ closer.pc = "prompt" => Head(closer.todo).ev = "end" /\ Head(closer.todo).b \in Names
         /\ closer.pc = "session" => Head(closer.todo).ev = "prompt_end" /\ Head(closer.todo).p \in 1 .. ids.p
                                     /\ Head(closer.todo).p \in Names
         /\ closer.pc = "hang_up" => Head(closer.todo).ev = "session_end"
<1>1. CloserShape /\ closer.pc \in {"idle", "block", "prompt", "session", "hang_up", "done"} /\ ids.p \in 0 .. MaxSends
  BY Sent DEF TypeInv, TypeOK, CloseType
<1>2. closer.pc \in {"prompt", "session", "hang_up"} /\ closed /\ es.open
  BY <1>1 DEF CloserShape
<1>3. CASE closer.pc = "prompt"
  <2>1. PICK p \in Names \cup {None}, b \in Names : closer.todo = <<Ev("end", p, b)>>
    BY <1>1, <1>3 DEF CloserShape
  <2>2. Ev("end", p, b) \in Event /\ Ev("end", p, b).ev = "end" /\ Ev("end", p, b).b = b
    BY Evs
  <2>3. Head(closer.todo) = Ev("end", p, b)
    BY <2>1, Lists
  <2> QED
    BY <1>2, <1>3, <2>2, <2>3
<1>4. CASE closer.pc = "session"
  <2>1. PICK p \in 1 .. ids.p : closer.todo = <<Ev("prompt_end", p, None)>>
    BY <1>1, <1>4 DEF CloserShape
  <2>2. p \in Names
    BY <1>1, Bounds
  <2>3. Ev("prompt_end", p, None) \in Event
    BY <2>2, Evs
  <2>5. Ev("prompt_end", p, None).ev = "prompt_end" /\ Ev("prompt_end", p, None).p = p
    BY DEF Ev
  <2>4. Head(closer.todo) = Ev("prompt_end", p, None)
    BY <2>1, Lists
  <2> QED
    BY <1>2, <1>4, <2>2, <2>3, <2>4, <2>5
<1>5. CASE closer.pc = "hang_up"
  <2>1. closer.todo = <<Ev("session_end", None, None)>>
    BY <1>1, <1>5 DEF CloserShape
  <2>2. Ev("session_end", None, None) \in Event /\ Ev("session_end", None, None).ev = "session_end"
    BY Evs
  <2>3. Head(closer.todo) = Ev("session_end", None, None)
    BY <2>1, Lists
  <2> QED
    BY <1>2, <1>5, <2>2, <2>3
<1> QED
  BY <1>2, <1>3, <1>4, <1>5

LEMMA StepEventType == TypeInv /\ [Next]_vars => EventType'
<1> SUFFICES ASSUME TypeInv, [Next]_vars PROVE es' \in EventStream /\ fate' \in Fate
  BY DEF EventType, EventStream, Fate
<1>1. es \in EventStream /\ fate \in Fate
  BY DEF TypeInv, TypeOK, EventType, EventStream, Fate
<1>2. ASSUME NEW t \in Senders, Sends(t) PROVE es' \in EventStream /\ fate' \in Fate
  <2>1. CASE UNCHANGED <<es, fate>>
    BY <1>1, <2>1
  <2>2. CASE Wrote(t)
    <3> DEFINE e == Head(sender[t].todo)
    <3>1. sender[t].todo # <<>>
      BY <2>2 DEF Wrote, AtWrite
    <3>2. e \in Event /\ (e.ev = "prompt_start" => e.p \in Names)
      <4>1. e \in Event /\ sender[t].pc \in {"open", "claim", "raw", "rest"}
        BY <3>1, Todo
      <4>2. CASE sender[t].pc = "open"
        BY <3>1, <4>1, <4>2, Todo
      <4>3. CASE sender[t].pc \in {"claim", "raw"}
        BY <3>1, <4>1, <4>3, Todo
      <4>4. CASE sender[t].pc = "rest"
        <5>1. e.ev # "prompt_start"
          <6>1. Ev("prompt_end", sender[t].p, None).ev = "prompt_end"
            BY DEF Ev
          <6> QED
            BY <3>1, <4>4, <6>1, Todo
        <5> QED
          BY <4>1, <5>1
      <4> QED
        BY <4>1, <4>2, <4>3, <4>4
    <3>3. es' = Told(e) /\ fate' = fate
      BY <2>2 DEF Wrote
    <3> QED
      BY <1>1, <3>2, <3>3, ToldType
  <2>3. CASE Gives(t)
    <3>1. es' \in EventStream
      BY <1>1, <2>3 DEF Gives, EventStream
    <3>2. sender[t].pc = "open" \/ sender[t].op = "eot" => sender[t].p \in Names
      <4>1. sender[t].todo # <<>> /\ Shape(sender[t])
        BY <2>3, Sent DEF Gives
      <4>2. sender[t].op = "eot" => sender[t].pc = "rest"
        BY <4>1, Todo DEF Shape
      <4> QED
        BY <4>1, <4>2, Todo
    <3>3. fate' = fate \/ (fate' = [fate EXCEPT !.abandoned = @ \cup {sender[t].p}] /\ sender[t].p \in Names)
      BY <2>3, <3>2 DEF Gives, Aborts
    <3>4. fate' \in Fate
      BY <1>1, <3>3 DEF Fate
    <3> QED
      BY <3>1, <3>4
  <2> QED
    BY <1>2, <2>1, <2>2, <2>3, SendEvents
<1>3. CASE Close \/ CloseBlock \/ CloseSession
  BY <1>1, <1>3 DEF Close, CloseBlock, CloseSession
<1>4. CASE ClosePrompt
  <2> DEFINE m == {sender[t].p : t \in {u \in Senders : sender[u].pc = "open" \/ (sender[u].pc = "rest" /\ sender[u].op = "eot")}}
  <2>1. es' = es /\ fate' = [fate EXCEPT !.missed = m]
    BY <1>4 DEF ClosePrompt
  <2>2. ASSUME NEW u \in Senders, sender[u].pc = "open" \/ (sender[u].pc = "rest" /\ sender[u].op = "eot")
        PROVE  sender[u].p \in Names
    <3>1. sender[u].p \in 1 .. ids.p /\ ids.p \in 0 .. MaxSends
      BY <2>2, Sent DEF Shape
    <3> QED
      BY <3>1, Bounds
  <2>3. m \in SUBSET Names
    BY <2>2
  <2> HIDE DEF m
  <2> QED
    BY <1>1, <2>1, <2>3 DEF Fate
<1>5. CASE CloseWrite
  <2>1. closer.todo # <<>> /\ fate' = fate
        /\ (es' = es \/ es' = Told(Head(closer.todo)) \/ es' = [es EXCEPT !.failed = TRUE])
    BY <1>5 DEF CloseWrite, Writes, WriteFails
  <2>2. Told(Head(closer.todo)) \in EventStream
    BY <1>1, <2>1, Closes, ToldType
  <2>3. [es EXCEPT !.failed = TRUE] \in EventStream
    BY <1>1 DEF EventStream
  <2> QED
    BY <1>1, <2>1, <2>2, <2>3
<1>6. CASE HangUp
  BY <1>1, <1>6 DEF HangUp, EventStream
<1>7. CASE ReadEvent \/ Emit
  BY <1>1, <1>7 DEF ReadEvent, Emit
<1>8. CASE Reset
  <2>1. es' = es /\ fate' = [fate EXCEPT !.completed = @ \cup ({prompt.id} \ {None})] /\ prompt.id \in Names \cup {None}
    BY <1>8, Sent DEF Reset
  <2> QED
    BY <1>1, <2>1 DEF Fate
<1>9. CASE LoopStops \/ StreamEnds
  BY <1>1, <1>9 DEF LoopStops, StreamEnds, Ends
<1>10. CASE Receive \/ UNCHANGED vars
  BY <1>1, <1>10 DEF Receive, vars
<1> QED
  BY <1>2, <1>3, <1>4, <1>5, <1>6, <1>7, <1>8, <1>9, <1>10, NextCases

LEMMA StepCloseType == TypeInv /\ [Next]_vars => CloseType'
<1> DEFINE Pcs == {"idle", "block", "prompt", "session", "hang_up", "done"}
<1> SUFFICES ASSUME TypeInv, [Next]_vars PROVE closed' \in BOOLEAN /\ closer' \in [pc : Pcs, todo : Seq(Event)]
  BY DEF CloseType
<1>1. closed \in BOOLEAN /\ closer \in [pc : Pcs, todo : Seq(Event)]
  BY DEF TypeInv, TypeOK, CloseType
<1>2. <<>> \in Seq(Event)
  OBVIOUS
<1>3. ASSUME NEW t \in Senders, Sends(t) PROVE UNCHANGED <<closed, closer>>
  BY <1>3, SendsAlone
<1>4. CASE Close
  BY <1>1, <1>4 DEF Close
<1>5. CASE CloseBlock
  <2> DEFINE todo == IF audio = None THEN <<>> ELSE <<Ev("end", prompt.id, audio)>>
  <2>1. Ev("end", prompt.id, audio) \in Event
    BY Sent, Evs
  <2>2. todo \in Seq(Event)
    BY <1>2, <2>1
  <2>3. closed' = closed /\ closer' = [pc |-> "prompt", todo |-> todo]
    BY <1>5 DEF CloseBlock
  <2> HIDE DEF todo
  <2> QED
    BY <1>1, <2>2, <2>3
<1>6. CASE ClosePrompt
  <2> DEFINE todo == IF PromptLeft THEN <<Ev("prompt_end", prompt.id, None)>> ELSE <<>>
  <2>1. Ev("prompt_end", prompt.id, None) \in Event
    BY Sent, Evs
  <2>2. todo \in Seq(Event)
    BY <1>2, <2>1
  <2>3. closed' = closed /\ closer' = [pc |-> "session", todo |-> todo]
    BY <1>6 DEF ClosePrompt
  <2> HIDE DEF todo
  <2> QED
    BY <1>1, <2>2, <2>3
<1>7. CASE CloseSession
  <2>1. <<Ev("session_end", None, None)>> \in Seq(Event)
    BY Evs
  <2>2. closed' = closed /\ closer' = [pc |-> "hang_up", todo |-> <<Ev("session_end", None, None)>>]
    BY <1>7 DEF CloseSession
  <2> QED
    BY <1>1, <2>1, <2>2
<1>8. CASE CloseWrite
  <2>1. closed' = closed /\ closer' = [closer EXCEPT !.todo = <<>>]
    BY <1>8 DEF CloseWrite
  <2> QED
    BY <1>1, <1>2, <2>1
<1>9. CASE HangUp
  <2>1. closed' = closed /\ closer' = [closer EXCEPT !.pc = "done"]
    BY <1>9 DEF HangUp
  <2> QED
    BY <1>1, <2>1
<1>10. CASE ReadEvent \/ Emit \/ Reset
  BY <1>1, <1>10 DEF ReadEvent, Emit, Reset, Looping
<1>11. CASE LoopStops \/ StreamEnds
  BY <1>1, <1>11 DEF LoopStops, StreamEnds, Ends, Looping
<1>12. CASE Receive \/ UNCHANGED vars
  BY <1>1, <1>12 DEF Receive, vars
<1> QED
  BY <1>1, <1>3, <1>4, <1>5, <1>6, <1>7, <1>8, <1>9, <1>10, <1>11, <1>12, NextCases

LEMMA StepCloserShape == TypeInv /\ [Next]_vars => CloserShape'
<1> SUFFICES ASSUME TypeInv, [Next]_vars PROVE CloserShape'
  OBVIOUS
<1>1. CloserShape /\ closer \in [pc : {"idle", "block", "prompt", "session", "hang_up", "done"}, todo : Seq(Event)]
  BY DEF TypeInv, TypeOK, CloseType
<1>2. es \in EventStream /\ ids.p \in Nat
  BY Sent DEF TypeInv, TypeOK, EventType, EventStream
<1>3. ASSUME UNCHANGED <<closed, closer>>, es'.open = es.open, ids'.p \in Nat, ids.p <= ids'.p
      PROVE  CloserShape'
  <2>1. \A p \in 1 .. ids.p : p \in 1 .. ids'.p
    BY <1>2, <1>3
  <2> QED
    BY <1>1, <1>3, <2>1 DEF CloserShape
<1>4. ids'.p = ids.p => ids'.p \in Nat /\ ids.p <= ids'.p
  BY <1>2
<1>5. ASSUME NEW t \in Senders, Sends(t) PROVE CloserShape'
  <2>1. UNCHANGED <<closed, closer>>
    BY <1>5, SendsAlone
  <2>2. ids'.p \in Nat /\ ids.p <= ids'.p
    <3>1. SentBy(t)
      BY <1>5, SenderStep DEF Sends
    <3> QED
      BY <3>1, Bounds DEF SentBy
  <2>3. es'.open = es.open
    <3>1. CASE Wrote(t)
      <4> DEFINE e == Head(sender[t].todo)
      <4>1. es' = Told(e)
        BY <3>1 DEF Wrote
      <4>2. Told(e).open = es.open
        BY <1>2 DEF Told, EventStream
      <4> QED
        BY <4>1, <4>2
    <3>2. CASE Gives(t)
      BY <1>2, <3>2 DEF Gives, EventStream
    <3> QED
      BY <1>5, <3>1, <3>2, SendEvents
  <2> QED
    BY <1>3, <2>1, <2>2, <2>3
<1>6. CASE Close
  BY <1>1, <1>6 DEF Close, CloserShape
<1>7. CASE CloseBlock
  <2>1. closer' = [pc |-> "prompt", todo |-> IF audio = None THEN <<>> ELSE <<Ev("end", prompt.id, audio)>>]
    BY <1>7 DEF CloseBlock
  <2>2. UNCHANGED <<closed, es, ids>> /\ closer.pc = "block"
    BY <1>7 DEF CloseBlock, Closing
  <2>3. audio \in Names \cup {None} /\ prompt.id \in Names \cup {None}
    BY Sent
  <2> QED
    BY <1>1, <2>1, <2>2, <2>3 DEF CloserShape
<1>8. CASE ClosePrompt
  <2>1. closer' = [pc |-> "session", todo |-> IF PromptLeft THEN <<Ev("prompt_end", prompt.id, None)>> ELSE <<>>]
    BY <1>8 DEF ClosePrompt
  <2>2. UNCHANGED <<closed, es, ids>> /\ closer.pc = "prompt"
    BY <1>8 DEF ClosePrompt, Closing
  <2>3. PromptLeft => prompt.id \in 1 .. ids.p
    BY <1>2, Sent, Bounds DEF PromptLeft
  <2> QED
    BY <1>1, <2>1, <2>2, <2>3 DEF CloserShape
<1>9. CASE CloseSession
  <2>1. closer' = [pc |-> "hang_up", todo |-> <<Ev("session_end", None, None)>>]
    BY <1>9 DEF CloseSession
  <2>2. UNCHANGED <<closed, es, ids>> /\ closer.pc = "session"
    BY <1>9 DEF CloseSession, Closing
  <2> QED
    BY <1>1, <2>1, <2>2 DEF CloserShape
<1>10. CASE CloseWrite
  <2>1. closer' = [closer EXCEPT !.todo = <<>>] /\ UNCHANGED <<closed, ids>>
    BY <1>10 DEF CloseWrite, Closing
  <2>2. closer'.todo = <<>> /\ closer'.pc = closer.pc
    BY <1>1, <2>1
  <2>3. es'.open = es.open
    <3>1. es' = es \/ es' = Told(Head(closer.todo)) \/ es' = [es EXCEPT !.failed = TRUE]
      BY <1>10 DEF CloseWrite, Writes, WriteFails
    <3>2. Told(Head(closer.todo)).open = es.open
      BY <1>2 DEF Told, EventStream
    <3> QED
      BY <1>2, <3>1, <3>2 DEF EventStream
  <2> QED
    BY <1>1, <2>1, <2>2, <2>3 DEF CloserShape
<1>11. CASE HangUp
  <2>1. es' = [es EXCEPT !.open = FALSE] /\ closer' = [closer EXCEPT !.pc = "done"] /\ closed' = closed
    BY <1>11 DEF HangUp
  <2>2. ~es'.open /\ closer'.pc = "done" /\ closer'.todo = <<>> /\ closer.pc = "hang_up"
    BY <1>1, <1>2, <1>11, <2>1 DEF EventStream, HangUp
  <2> QED
    BY <1>1, <2>1, <2>2 DEF CloserShape
<1>12. CASE ReadEvent \/ Emit \/ Reset
  <2>1. UNCHANGED <<closed, closer, es, ids>>
    BY <1>12 DEF ReadEvent, Emit, Reset, Looping
  <2> QED
    BY <1>3, <1>4, <2>1
<1>13. CASE LoopStops \/ StreamEnds
  <2>1. UNCHANGED <<closed, closer, es, ids>>
    BY <1>13 DEF LoopStops, StreamEnds, Ends, Looping
  <2> QED
    BY <1>3, <1>4, <2>1
<1>14. CASE Receive \/ UNCHANGED vars
  <2>1. UNCHANGED <<closed, closer, es, ids>>
    BY <1>14 DEF Receive, vars
  <2> QED
    BY <1>3, <1>4, <2>1
<1> QED
  BY <1>5, <1>6, <1>7, <1>8, <1>9, <1>10, <1>11, <1>12, <1>13, <1>14, NextCases

(***************************************************************************)
(* recvLoop.                                                               *)
(***************************************************************************)
Loop == [pc : {"read", "emit", "reset", "done"}, inTool : BOOLEAN, tool : BOOLEAN, speculative : BOOLEAN,
         frame : Frame, said : Seq(Frame)]
Blocks == {"between", "speculative", "final", "audio", "tool", "tool_used"}

\* recvLoop knows which block the server is in.
FollowsAt(l, s) ==
  /\ s = "speculative" => l.speculative
  /\ s = "final" => ~l.speculative
  /\ s = "tool" => l.inTool /\ ~l.tool
  /\ s = "tool_used" => l.inTool /\ l.tool
Follows == FollowsAt(loop, server)

Pending(l) == IF l.pc = "emit" THEN <<l.frame>> ELSE <<>>

LEMMA Moves ==
  ASSUME server \in Blocks, NEW e \in ServerSteps
  PROVE  \/ server = "between" /\ e = Step("start_speculative", "speculative", <<>>)
         \/ server = "between" /\ e = Step("start_final", "final", <<>>)
         \/ server = "between" /\ e = Step("start_audio", "audio", <<>>)
         \/ server = "between" /\ e = Step("start_tool", "tool", <<>>)
         \/ server = "between" /\ e = Step("completion", "between", <<"eot">>)
         \/ server = "between" /\ e = Step("usage", "between", <<"usage">>)
         \/ server \in {"speculative"} /\ e = Step("text", "speculative", <<>>)
         \/ server = "final" /\ e = Step("text", "final", <<"text">>)
         \/ server = "final" /\ e = Step("interrupted", "final", <<"flush">>)
         \/ server = "audio" /\ e = Step("audio", "audio", <<"audio">>)
         \/ server = "tool" /\ e = Step("tool_use", "tool_used", <<>>)
         \/ server = "tool" /\ e = Step("end_tool", "between", <<>>)
         \/ server = "tool_used" /\ e = Step("end_tool", "between", <<"call">>)
         \/ server \in {"speculative", "final", "audio"} /\ e = Step("end", "between", <<>>)
<1>1. CASE server = "between"
  BY <1>1 DEF ServerSteps
<1>2. CASE server = "speculative"
  BY <1>2 DEF ServerSteps
<1>3. CASE server = "final"
  BY <1>3 DEF ServerSteps
<1>4. CASE server = "audio"
  BY <1>4 DEF ServerSteps
<1>5. CASE server = "tool"
  BY <1>5 DEF ServerSteps
<1>6. CASE server = "tool_used"
  BY <1>6 DEF ServerSteps
<1> QED
  BY <1>1, <1>2, <1>3, <1>4, <1>5, <1>6 DEF Blocks

\* What recvLoop makes of an event of the server.
LEMMA Handles ==
  ASSUME server \in Blocks, NEW e \in ServerSteps, NEW l \in Loop, l.pc = "read"
  PROVE  /\ Handled(l, e.k) \in Loop /\ e.next \in Blocks /\ e.said \in Seq(Frame)
         /\ Handled(l, e.k).said = l.said
         /\ FollowsAt(l, server) => FollowsAt(Handled(l, e.k), e.next) /\ Pending(Handled(l, e.k)) = e.said
<1> DEFINE h == Handled(l, e.k)
<1>1. Step("a", "b", <<>>).said = <<>> /\ \A k, n, s : Step(k, n, s).k = k /\ Step(k, n, s).next = n /\ Step(k, n, s).said = s
  BY DEF Step
<1>2. <<>> \in Seq(Frame) /\ \A f \in Frame : <<f>> \in Seq(Frame)
  OBVIOUS
<1>3. "text" \in Frame /\ "flush" \in Frame /\ "audio" \in Frame /\ "call" \in Frame /\ "eot" \in Frame /\ "usage" \in Frame
  BY DEF Frame
<1>4. \A f \in Frame : Holds(l, f) \in Loop /\ Holds(l, f).said = l.said /\ Pending(Holds(l, f)) = <<f>>
                       /\ Holds(l, f).inTool = l.inTool /\ Holds(l, f).tool = l.tool /\ Holds(l, f).speculative = l.speculative
  BY DEF Holds, Loop, Pending
<1>5. Pending(l) = <<>>
  BY DEF Pending
<1>6. CASE e = Step("start_speculative", "speculative", <<>>)
  <2>1. e.k = "start_speculative" /\ e.next = "speculative" /\ e.said = <<>>
    BY <1>1, <1>6
  <2>2. h = [l EXCEPT !.speculative = TRUE]
    BY <2>1 DEF Handled
  <2>3. h \in Loop /\ h.said = l.said /\ h.speculative
    BY <2>2 DEF Loop
  <2>4. h.pc = l.pc
    BY <2>2 DEF Loop
  <2>5. Pending(h) = <<>>
    BY <2>4 DEF Pending
  <2> QED
    BY <1>2, <1>6, <2>1, <2>3, <2>5 DEF Blocks, FollowsAt
<1>7. CASE e = Step("start_final", "final", <<>>)
  <2>1. e.k = "start_final" /\ e.next = "final" /\ e.said = <<>>
    BY <1>1, <1>7
  <2>2. h = [l EXCEPT !.speculative = FALSE]
    BY <2>1 DEF Handled
  <2>3. h \in Loop /\ h.said = l.said /\ ~h.speculative
    BY <2>2 DEF Loop
  <2>4. h.pc = l.pc
    BY <2>2 DEF Loop
  <2>5. Pending(h) = <<>>
    BY <2>4 DEF Pending
  <2> QED
    BY <1>2, <1>7, <2>1, <2>3, <2>5 DEF Blocks, FollowsAt
<1>18. CASE e = Step("start_audio", "audio", <<>>)
  <2>1. e.k = "start_audio" /\ e.next = "audio" /\ e.said = <<>>
    BY <1>1, <1>18
  <2>2. h = [l EXCEPT !.speculative = FALSE]
    BY <2>1 DEF Handled
  <2>3. h \in Loop /\ h.said = l.said /\ ~h.speculative
    BY <2>2 DEF Loop
  <2>4. h.pc = l.pc
    BY <2>2 DEF Loop
  <2>5. Pending(h) = <<>>
    BY <2>4 DEF Pending
  <2> QED
    BY <1>2, <1>18, <2>1, <2>3, <2>5 DEF Blocks, FollowsAt
<1>8. CASE e = Step("start_tool", "tool", <<>>)
  <2>1. e.k = "start_tool" /\ e.next = "tool" /\ e.said = <<>>
    BY <1>1, <1>8
  <2>2. h = [[l EXCEPT !.speculative = FALSE] EXCEPT !.inTool = TRUE, !.tool = FALSE]
    BY <2>1 DEF Handled, StartsTool
  <2>3. h \in Loop /\ h.said = l.said /\ h.inTool /\ ~h.tool
    BY <2>2 DEF Loop
  <2>4. h.pc = l.pc
    BY <2>2 DEF Loop
  <2>5. Pending(h) = <<>>
    BY <2>4 DEF Pending
  <2> QED
    BY <1>2, <1>8, <2>1, <2>3, <2>5 DEF Blocks, FollowsAt
<1>9. CASE e = Step("completion", "between", <<"eot">>)
  <2>1. e.k = "completion" /\ e.next = "between" /\ e.said = <<"eot">>
    BY <1>1, <1>9
  <2>2. h = Holds(l, "eot")
    BY <2>1 DEF Handled
  <2> QED
    BY <1>2, <1>3, <1>4, <1>9, <2>1, <2>2 DEF Blocks, FollowsAt
<1>10. CASE e = Step("usage", "between", <<"usage">>)
  <2>1. e.k = "usage" /\ e.next = "between" /\ e.said = <<"usage">>
    BY <1>1, <1>10
  <2>2. h = Holds(l, "usage")
    BY <2>1 DEF Handled
  <2> QED
    BY <1>2, <1>3, <1>4, <1>10, <2>1, <2>2 DEF Blocks, FollowsAt
<1>11. CASE server = "speculative" /\ e = Step("text", "speculative", <<>>)
  <2>1. e.k = "text" /\ e.next = "speculative" /\ e.said = <<>>
    BY <1>1, <1>11
  <2>2. h = IF l.speculative THEN l ELSE Holds(l, "text")
    BY <2>1 DEF Handled
  <2>3. h \in Loop /\ h.said = l.said /\ h.speculative = l.speculative
    BY <1>3, <1>4, <2>2
  <2>4. FollowsAt(l, server) => Pending(h) = e.said
    BY <1>3, <1>4, <1>5, <1>11, <2>1, <2>2 DEF FollowsAt
  <2> QED
    BY <1>2, <1>3, <1>11, <2>1, <2>3, <2>4 DEF Blocks, FollowsAt
<1>12. CASE server = "final" /\ e = Step("text", "final", <<"text">>)
  <2>1. e.k = "text" /\ e.next = "final" /\ e.said = <<"text">>
    BY <1>1, <1>12
  <2>2. h = IF l.speculative THEN l ELSE Holds(l, "text")
    BY <2>1 DEF Handled
  <2>3. h \in Loop /\ h.said = l.said /\ h.speculative = l.speculative
    BY <1>3, <1>4, <2>2
  <2>4. FollowsAt(l, server) => Pending(h) = e.said
    BY <1>3, <1>4, <1>5, <1>12, <2>1, <2>2 DEF FollowsAt
  <2> QED
    BY <1>2, <1>3, <1>12, <2>1, <2>3, <2>4 DEF Blocks, FollowsAt
<1>13. CASE server = "final" /\ e = Step("interrupted", "final", <<"flush">>)
  <2>1. e.k = "interrupted" /\ e.next = "final" /\ e.said = <<"flush">>
    BY <1>1, <1>13
  <2>2. h = IF l.speculative THEN l ELSE Holds(l, "flush")
    BY <2>1 DEF Handled
  <2>3. h \in Loop /\ h.said = l.said /\ h.speculative = l.speculative
    BY <1>3, <1>4, <2>2
  <2>4. FollowsAt(l, server) => Pending(h) = e.said
    BY <1>3, <1>4, <1>5, <1>13, <2>1, <2>2 DEF FollowsAt
  <2> QED
    BY <1>2, <1>3, <1>13, <2>1, <2>3, <2>4 DEF Blocks, FollowsAt
<1>14. CASE e = Step("audio", "audio", <<"audio">>)
  <2>1. e.k = "audio" /\ e.next = "audio" /\ e.said = <<"audio">>
    BY <1>1, <1>14
  <2>2. h = Holds(l, "audio")
    BY <2>1 DEF Handled
  <2> QED
    BY <1>2, <1>3, <1>4, <1>14, <2>1, <2>2 DEF Blocks, FollowsAt
<1>15. CASE server = "tool" /\ e = Step("tool_use", "tool_used", <<>>)
  <2>1. e.k = "tool_use" /\ e.next = "tool_used" /\ e.said = <<>>
    BY <1>1, <1>15
  <2>2. h = [l EXCEPT !.tool = TRUE]
    BY <2>1 DEF Handled
  <2>3. h \in Loop /\ h.said = l.said /\ h.tool /\ h.inTool = l.inTool
    BY <2>2 DEF Loop
  <2>4. h.pc = l.pc
    BY <2>2 DEF Loop
  <2>5. Pending(h) = <<>>
    BY <2>4 DEF Pending
  <2> QED
    BY <1>2, <1>15, <2>1, <2>3, <2>5 DEF Blocks, FollowsAt
<1>16. CASE \/ server = "tool" /\ e = Step("end_tool", "between", <<>>)
            \/ server = "tool_used" /\ e = Step("end_tool", "between", <<"call">>)
  <2> DEFINE out == [l EXCEPT !.inTool = FALSE]
  <2>1. h = IF l.inTool /\ l.tool THEN Holds(out, "call") ELSE l
    BY <1>1, <1>16 DEF Handled
  <2>2. Holds(out, "call") \in Loop /\ Holds(out, "call").said = l.said /\ Pending(Holds(out, "call")) = <<"call">>
    BY <1>3 DEF Holds, Loop, Pending
  <2> HIDE DEF out
  <2>3. e.next = "between" /\ e.said \in {<<>>, <<"call">>} /\ (server = "tool" => e.said = <<>>)
        /\ (server = "tool_used" => e.said = <<"call">>)
    BY <1>1, <1>16
  <2>4. h \in Loop /\ h.said = l.said
    BY <2>1, <2>2
  <2>5. FollowsAt(h, e.next)
    BY <2>3 DEF FollowsAt
  <2>6. FollowsAt(l, server) => Pending(h) = e.said
    BY <1>5, <1>16, <2>1, <2>2, <2>3 DEF FollowsAt
  <2> QED
    BY <1>2, <1>3, <2>3, <2>4, <2>5, <2>6 DEF Blocks
<1>17. CASE e = Step("end", "between", <<>>)
  <2>1. e.k = "end" /\ e.next = "between" /\ e.said = <<>>
    BY <1>1, <1>17
  <2>2. h = l
    BY <2>1 DEF Handled
  <2> QED
    BY <1>2, <1>5, <1>17, <2>1, <2>2 DEF Blocks, FollowsAt
<1> QED
  BY <1>6, <1>7, <1>8, <1>9, <1>10, <1>11, <1>12, <1>13, <1>14, <1>15, <1>16, <1>17, <1>18, Moves

LoopFacts ==
  /\ loop \in Loop /\ server \in Blocks /\ recv \in [frames : Seq(Frame), closed : BOOLEAN, err : BOOLEAN]
  /\ Len(recv.frames) <= RecvSize /\ got \in Seq(Frame)

\* The frame that is waited with, or that the caller reads, does not change what there
\* is in order.
LEMMA Moved ==
  /\ \A g, r \in Seq(Frame) : g \o r \o <<>> = g \o r
  /\ \A g, r \in Seq(Frame), f \in Frame : g \o Append(r, f) \o <<>> = g \o r \o <<f>>
  /\ \A g, r, s \in Seq(Frame) : r # <<>> => Append(g, Head(r)) \o Tail(r) \o s = g \o r \o s
<1>1. \A g, r \in Seq(Frame) : g \o r \in Seq(Frame) /\ g \o r \o <<>> = g \o r
  BY ConcatProperties, ConcatEmptySeq
<1>2. \A g, r \in Seq(Frame), f \in Frame : Append(g \o r, f) = g \o Append(r, f)
  OBVIOUS
<1>3. ASSUME NEW g \in Seq(Frame), NEW r \in Seq(Frame), NEW f \in Frame
      PROVE  g \o Append(r, f) \o <<>> = g \o r \o <<f>>
  <2>1. g \o r \in Seq(Frame) /\ Append(r, f) \in Seq(Frame)
    BY <1>1
  <2>2. Append(g \o r, f) = g \o r \o <<f>>
    BY <2>1, AppendIsConcat
  <2> QED
    BY <1>1, <1>2, <2>1, <2>2
<1>4. \A g, r \in Seq(Frame) : r # <<>> => Append(g, Head(r)) \o Tail(r) = g \o r
  OBVIOUS
<1> QED
  BY <1>1, <1>3, <1>4

LoopInv == LoopFacts /\ Follows /\ FramesMatch

\* LoopFacts is LoopType, with names for its sets.
LEMMA LoopFactsType == LoopFacts <=> LoopType
BY DEF LoopFacts, LoopType, Loop, Blocks

LEMMA StepLoop == LoopFacts /\ [Next]_vars => LoopFacts' /\ (Follows /\ FramesMatch => Follows' /\ FramesMatch')
<1> SUFFICES ASSUME LoopFacts, [Next]_vars
             PROVE  LoopFacts' /\ (Follows /\ FramesMatch => Follows' /\ FramesMatch')
  OBVIOUS
<1>1. FramesMatch <=> got \o recv.frames \o Pending(loop) = loop.said
  BY DEF FramesMatch, Pending
<1>2. FramesMatch' <=> got' \o recv'.frames \o Pending(loop') = loop'.said
  BY DEF FramesMatch, Pending
<1>3. loop \in Loop /\ server \in Blocks /\ recv.frames \in Seq(Frame) /\ got \in Seq(Frame) /\ Len(recv.frames) \in Nat
      /\ recv \in [frames : Seq(Frame), closed : BOOLEAN, err : BOOLEAN] /\ Pending(loop) \in Seq(Frame)
      /\ RecvSize \in Nat
  BY Bounds DEF LoopFacts, Loop, Pending
<1>4. CASE UNCHANGED <<loop, server, recv, got>>
  BY <1>1, <1>2, <1>4 DEF LoopFacts, Follows
<1>5. ASSUME NEW t \in Senders, Sends(t) PROVE UNCHANGED <<loop, server, recv, got>>
  BY <1>5, SendsAlone
<1>6. CASE Close \/ CloseBlock \/ ClosePrompt
  BY <1>4, <1>6 DEF Close, CloseBlock, ClosePrompt, Closing, Receiving
<1>7. CASE CloseSession \/ CloseWrite \/ HangUp
  BY <1>4, <1>7 DEF CloseSession, CloseWrite, HangUp, Closing, Receiving
<1>8. CASE ReadEvent
  <2>1. PICK e \in ServerSteps : loop' = Handled([loop EXCEPT !.said = @ \o e.said], e.k) /\ server' = e.next
    BY <1>8 DEF ReadEvent
  <2>2. loop.pc = "read" /\ UNCHANGED <<recv, got>>
    BY <1>8 DEF ReadEvent, Looping
  <2>3. e.said \in Seq(Frame)
    BY <1>3, <2>2, Handles
  <2> DEFINE l == [loop EXCEPT !.said = @ \o e.said]
  <2>4. l \in Loop /\ l.pc = "read" /\ l.said = loop.said \o e.said
    <3>1. loop.said \o e.said \in Seq(Frame)
      BY <1>3, <2>3 DEF Loop
    <3> QED
      BY <1>3, <2>2, <3>1 DEF Loop
  <2>5. FollowsAt(l, server) <=> Follows
    BY <1>3 DEF FollowsAt, Follows, Loop
  <2> HIDE DEF l
  <2>6. /\ Handled(l, e.k) \in Loop /\ e.next \in Blocks /\ Handled(l, e.k).said = l.said
        /\ FollowsAt(l, server) => FollowsAt(Handled(l, e.k), e.next) /\ Pending(Handled(l, e.k)) = e.said
    BY <1>3, <2>4, Handles
  <2>7. loop' = Handled(l, e.k)
    BY <2>1 DEF l
  <2>8. LoopFacts'
    BY <2>1, <2>2, <2>6, <2>7 DEF LoopFacts
  <2>9. ASSUME Follows, FramesMatch PROVE Follows' /\ FramesMatch'
    <3>1. Follows' /\ Pending(loop') = e.said /\ loop'.said = loop.said \o e.said
      BY <2>1, <2>4, <2>5, <2>6, <2>7, <2>9 DEF Follows
    <3>2. Pending(loop) = <<>>
      BY <2>2 DEF Pending
    <3>3. got \o recv.frames = loop.said
      BY <1>1, <1>3, <2>9, <3>2, Moved
    <3> QED
      BY <1>2, <2>2, <3>1, <3>3
  <2> QED
    BY <2>8, <2>9
<1>9. CASE Emit
  <2>1. /\ loop.pc = "emit" /\ Len(recv.frames) < RecvSize
        /\ recv' = [recv EXCEPT !.frames = Append(@, loop.frame)]
        /\ loop' = [loop EXCEPT !.pc = IF loop.frame = "eot" THEN "reset" ELSE "read"]
        /\ UNCHANGED <<server, got>>
    BY <1>9 DEF Emit, Looping
  <2>2. loop.frame \in Frame
    BY <1>3 DEF Loop
  <2>3. /\ Append(recv.frames, loop.frame) \in Seq(Frame)
        /\ Len(Append(recv.frames, loop.frame)) = Len(recv.frames) + 1
    BY <1>3, <2>2, AppendProperties
  <2>4. /\ recv' \in [frames : Seq(Frame), closed : BOOLEAN, err : BOOLEAN]
        /\ recv'.frames = Append(recv.frames, loop.frame)
    BY <1>3, <2>1, <2>3
  <2>5. Len(recv'.frames) <= RecvSize
    BY <1>3, <2>1, <2>3, <2>4
  <2>6. loop' \in Loop /\ loop'.pc # "emit" /\ loop'.said = loop.said
        /\ loop'.inTool = loop.inTool /\ loop'.tool = loop.tool /\ loop'.speculative = loop.speculative
    BY <1>3, <2>1 DEF Loop
  <2>7. LoopFacts'
    BY <1>3, <2>1, <2>4, <2>5, <2>6 DEF LoopFacts
  <2>8. Follows => Follows'
    BY <2>1, <2>6 DEF Follows, FollowsAt
  <2>9. Pending(loop) = <<loop.frame>> /\ Pending(loop') = <<>>
    BY <2>1, <2>6 DEF Pending
  <2>10. FramesMatch => FramesMatch'
    <3>1. got \o Append(recv.frames, loop.frame) \o <<>> = got \o recv.frames \o <<loop.frame>>
      BY <1>3, <2>2, Moved
    <3> QED
      BY <1>1, <1>2, <2>1, <2>4, <2>6, <2>9, <3>1
  <2> QED
    BY <2>7, <2>8, <2>10
<1>10. CASE Reset
  <2>1. loop.pc = "reset" /\ loop' = [loop EXCEPT !.pc = "read"] /\ UNCHANGED <<server, recv, got>>
    BY <1>10 DEF Reset, Looping
  <2>2. loop' \in Loop /\ loop'.said = loop.said
        /\ loop'.inTool = loop.inTool /\ loop'.tool = loop.tool /\ loop'.speculative = loop.speculative
    BY <1>3, <2>1 DEF Loop
  <2>3. Pending(loop') = <<>> /\ Pending(loop) = <<>>
    BY <1>3, <2>1 DEF Pending, Loop
  <2>4. LoopFacts'
    BY <2>1, <2>2 DEF LoopFacts
  <2>5. Follows => Follows'
    BY <2>1, <2>2 DEF Follows, FollowsAt
  <2>6. FramesMatch => FramesMatch'
    BY <1>1, <1>2, <2>1, <2>2, <2>3
  <2> QED
    BY <2>4, <2>5, <2>6
<1>11. CASE LoopStops \/ StreamEnds
  <2>1. PICK err \in BOOLEAN : Ends(err)
    BY <1>11 DEF LoopStops, StreamEnds
  <2>2. /\ loop.pc = "read" /\ loop' = [loop EXCEPT !.pc = "done"]
        /\ recv' = [recv EXCEPT !.closed = TRUE, !.err = err]
        /\ UNCHANGED <<server, got>>
    BY <1>11, <2>1 DEF LoopStops, StreamEnds, Ends, Looping
  <2>3. loop' \in Loop /\ loop'.said = loop.said
        /\ loop'.inTool = loop.inTool /\ loop'.tool = loop.tool /\ loop'.speculative = loop.speculative
    BY <1>3, <2>2 DEF Loop
  <2>4. Pending(loop') = <<>> /\ Pending(loop) = <<>>
    BY <1>3, <2>2 DEF Pending, Loop
  <2>5. recv'.frames = recv.frames /\ recv' \in [frames : Seq(Frame), closed : BOOLEAN, err : BOOLEAN]
    BY <1>3, <2>2
  <2>6. LoopFacts'
    BY <2>2, <2>3, <2>5 DEF LoopFacts
  <2>7. Follows => Follows'
    BY <2>2, <2>3 DEF Follows, FollowsAt
  <2>8. FramesMatch => FramesMatch'
    BY <1>1, <1>2, <2>2, <2>3, <2>4, <2>5
  <2> QED
    BY <2>6, <2>7, <2>8
<1>12. CASE Receive
  <2>1. /\ recv.frames # <<>> /\ got' = Append(got, Head(recv.frames))
        /\ recv' = [recv EXCEPT !.frames = Tail(@)] /\ UNCHANGED <<loop, server>>
    BY <1>12 DEF Receive
  <2>2. Head(recv.frames) \in Frame /\ Tail(recv.frames) \in Seq(Frame) /\ Len(Tail(recv.frames)) = Len(recv.frames) - 1
    BY <1>3, <2>1, HeadTailProperties
  <2>3. recv'.frames = Tail(recv.frames) /\ recv' \in [frames : Seq(Frame), closed : BOOLEAN, err : BOOLEAN]
    BY <1>3, <2>1, <2>2
  <2>4. got' \in Seq(Frame)
    BY <1>3, <2>1, <2>2, AppendProperties
  <2>5. Len(recv'.frames) <= RecvSize
    BY <1>3, <2>2, <2>3 DEF LoopFacts
  <2>6. LoopFacts'
    BY <2>1, <2>3, <2>4, <2>5 DEF LoopFacts
  <2>7. Follows => Follows'
    BY <2>1 DEF Follows
  <2>8. FramesMatch => FramesMatch'
    <3>1. Append(got, Head(recv.frames)) \o Tail(recv.frames) \o Pending(loop) = got \o recv.frames \o Pending(loop)
      BY <1>3, <2>1, Moved
    <3> QED
      BY <1>1, <1>2, <2>1, <2>3, <3>1
  <2> QED
    BY <2>6, <2>7, <2>8
<1>13. CASE UNCHANGED vars
  BY <1>4, <1>13 DEF vars
<1> QED
  BY <1>4, <1>5, <1>6, <1>7, <1>8, <1>9, <1>10, <1>11, <1>12, <1>13, NextCases

(***************************************************************************)
(* Names are enough.                                                       *)
(***************************************************************************)
BeforePrompt == {"wait", "recheck"}
BeforeBlock == {"wait", "recheck", "open", "body"}

LEMMA Grows ==
  ASSUME NEW S, IsFiniteSet(S), NEW x, NEW T, T = S \cup {x} \/ T = S \ {x}
  PROVE  /\ Cardinality(T) \in Nat /\ Cardinality(S) \in Nat /\ Cardinality(T) <= Cardinality(S) + 1
         /\ x \in T /\ x \in S => Cardinality(T) <= Cardinality(S)
         /\ x \notin T => Cardinality(T) <= Cardinality(S)
         /\ x \notin T /\ x \in S => Cardinality(T) + 1 <= Cardinality(S)
<1>1. Cardinality(S) \in Nat
  BY FS_CardinalityType
<1>2. CASE T = S \cup {x}
  <2>1. IsFiniteSet(T) /\ Cardinality(T) = IF x \in S THEN Cardinality(S) ELSE Cardinality(S) + 1
    BY <1>2, FS_AddElement
  <2> QED
    BY <1>1, <1>2, <2>1
<1>3. CASE T = S \ {x}
  <2>1. IsFiniteSet(T) /\ Cardinality(T) = IF x \in S THEN Cardinality(S) - 1 ELSE Cardinality(S)
    BY <1>3, FS_RemoveElement
  <2>2. Cardinality(T) \in Nat
    BY <2>1, FS_CardinalityType
  <2> QED
    BY <1>1, <1>3, <2>1, <2>2
<1> QED
  BY <1>2, <1>3

LEMMA CountOne ==
  ASSUME TypeInv, NEW t \in Senders, sender' = [sender EXCEPT ![t] = sender'[t]]
  PROVE  /\ Cardinality(WillOpen') \in Nat /\ Cardinality(WillOpen') <= Cardinality(WillOpen) + 1
         /\ sender'[t].pc \in BeforePrompt /\ sender[t].pc \in BeforePrompt
            => Cardinality(WillOpen') <= Cardinality(WillOpen)
         /\ sender'[t].pc \notin BeforePrompt => Cardinality(WillOpen') <= Cardinality(WillOpen)
         /\ sender'[t].pc \notin BeforePrompt /\ sender[t].pc \in BeforePrompt
            => Cardinality(WillOpen') + 1 <= Cardinality(WillOpen)
         /\ Cardinality(WillClaim') \in Nat /\ Cardinality(WillClaim') <= Cardinality(WillClaim) + 1
         /\ sender'[t].pc \in BeforeBlock /\ sender[t].pc \in BeforeBlock
            => Cardinality(WillClaim') <= Cardinality(WillClaim)
         /\ sender'[t].pc \notin BeforeBlock => Cardinality(WillClaim') <= Cardinality(WillClaim)
         /\ sender'[t].pc \notin BeforeBlock /\ sender[t].pc \in BeforeBlock
            => Cardinality(WillClaim') + 1 <= Cardinality(WillClaim)
<1>1. \A u \in Senders \ {t} : sender'[u] = sender[u]
  BY Sent
<1>2. WillOpen' = WillOpen \cup {t} \/ WillOpen' = WillOpen \ {t}
  BY <1>1 DEF WillOpen
<1>3. WillClaim' = WillClaim \cup {t} \/ WillClaim' = WillClaim \ {t}
  BY <1>1 DEF WillClaim
<1>4. /\ t \in WillOpen' <=> sender'[t].pc \in BeforePrompt
      /\ t \in WillOpen <=> sender[t].pc \in BeforePrompt
      /\ t \in WillClaim' <=> sender'[t].pc \in BeforeBlock
      /\ t \in WillClaim <=> sender[t].pc \in BeforeBlock
  BY DEF WillOpen, WillClaim, BeforePrompt, BeforeBlock
<1>5. IsFiniteSet(WillOpen) /\ IsFiniteSet(WillClaim)
  BY CountedFinite
<1>6. /\ Cardinality(WillOpen') \in Nat /\ Cardinality(WillOpen') <= Cardinality(WillOpen) + 1
      /\ t \in WillOpen' /\ t \in WillOpen => Cardinality(WillOpen') <= Cardinality(WillOpen)
      /\ t \notin WillOpen' => Cardinality(WillOpen') <= Cardinality(WillOpen)
      /\ t \notin WillOpen' /\ t \in WillOpen => Cardinality(WillOpen') + 1 <= Cardinality(WillOpen)
  BY <1>2, <1>5, Grows
<1>7. /\ Cardinality(WillClaim') \in Nat /\ Cardinality(WillClaim') <= Cardinality(WillClaim) + 1
      /\ t \in WillClaim' /\ t \in WillClaim => Cardinality(WillClaim') <= Cardinality(WillClaim)
      /\ t \notin WillClaim' => Cardinality(WillClaim') <= Cardinality(WillClaim)
      /\ t \notin WillClaim' /\ t \in WillClaim => Cardinality(WillClaim') + 1 <= Cardinality(WillClaim)
  BY <1>3, <1>5, Grows
<1> QED
  BY <1>4, <1>6, <1>7

\* Where a step of a sender takes it, and which names it takes.
LEMMA Goes ==
  ASSUME TypeInv, NEW t \in Senders, Sends(t)
  PROVE  \/ sender[t].pc = "idle" /\ budget'.sends = budget.sends - 1 /\ ids' = ids
         \/ /\ sender[t].pc = "wait" /\ sender'[t].pc = "recheck" /\ ids' = ids
         \/ /\ sender[t].pc = "recheck" /\ sender'[t].pc = "body" /\ ids' = ids
         \/ /\ sender[t].pc = "recheck" /\ sender'[t].pc = "open"
            /\ ids'.p = ids.p + 1 /\ ids'.b = ids.b
         \/ /\ sender[t].pc = "open" /\ sender'[t].pc = "body" /\ ids' = ids
         \/ /\ sender[t].pc = "body" /\ sender'[t].pc = "claim"
            /\ ids'.p = ids.p /\ ids'.b = ids.b + 1
         \/ /\ sender[t].pc \in {"body", "claim"} /\ sender'[t].pc \in {"raw", "rest"} /\ ids' = ids
         \/ /\ sender'[t].pc \in {sender[t].pc, "idle"} /\ ids' = ids
<1>1. sender \in [Senders -> Sender] /\ sender[t] \in Sender /\ ids \in Named /\ budget \in Budget /\ Idle.pc = "idle"
  BY Sent DEF Idle
<1>2. ASSUME NEW s, Becomes(t, s) PROVE sender'[t] = s
  BY <1>1, <1>2 DEF Becomes
<1>3. \A pc, todo : Writing(t, pc, todo).pc = pc /\ Next_(t, pc).pc = pc
  BY <1>1 DEF Writing, Next_, Sender
<1>4. CASE Begin(t)
  BY <1>1, <1>4 DEF Begin, Budget
<1>5. CASE EndOfTurn(t)
  BY <1>1, <1>5 DEF EndOfTurn, Budget
<1>6. CASE Lock(t)
  BY <1>2, <1>3, <1>6 DEF Lock
<1>7. CASE AlreadyOpen(t)
  BY <1>2, <1>3, <1>7 DEF AlreadyOpen
<1>8. CASE Open(t)
  <2> DEFINE s == Writing(t, "open", <<Ev("prompt_start", ids'.p, None)>> \o (IF prompt.system THEN <<>> ELSE System(ids'.p)))
  <2>1. sender'[t] = [s EXCEPT !.p = ids'.p, !.sys = ~prompt.system] /\ ids' = [ids EXCEPT !.p = @ + 1]
    BY <1>2, <1>8 DEF Open
  <2>2. s.pc = "open" /\ [s EXCEPT !.p = ids'.p, !.sys = ~prompt.system].pc = s.pc
    BY <1>1, <1>3 DEF Writing, Sender
  <2>3. ids'.p = ids.p + 1 /\ ids'.b = ids.b
    BY <1>1, <2>1 DEF Named
  <2> HIDE DEF s
  <2> QED
    BY <1>8, <2>1, <2>2, <2>3 DEF Open
<1>9. CASE Opened(t)
  BY <1>2, <1>3, <1>9 DEF Opened
<1>10. CASE Claim(t)
  <2> DEFINE s == Writing(t, "claim", <<Ev("start", prompt.id, ids'.b)>>)
  <2>1. sender'[t] = [s EXCEPT !.p = prompt.id, !.b = ids'.b] /\ ids' = [ids EXCEPT !.b = @ + 1]
    BY <1>2, <1>10 DEF Claim
  <2>2. s.pc = "claim" /\ [s EXCEPT !.p = prompt.id, !.b = ids'.b].pc = s.pc
    BY <1>1, <1>3 DEF Writing, Sender
  <2>3. ids'.p = ids.p /\ ids'.b = ids.b + 1
    BY <1>1, <2>1 DEF Named
  <2> HIDE DEF s
  <2> QED
    BY <1>10, <2>1, <2>2, <2>3 DEF Claim
<1>11. CASE Join(t) \/ Claimed(t)
  <2>1. \A p, b : Raw(t, p, b).pc = "raw"
    BY <1>1 DEF Raw, Writing, Sender
  <2> QED
    BY <1>2, <1>11, <2>1 DEF Join, Claimed
<1>12. CASE Content(t)
  BY <1>2, <1>3, <1>12 DEF Content
<1>13. CASE SendCheck(t)
  <2>1. [sender[t] EXCEPT !.checked = TRUE].pc = sender[t].pc
    BY <1>1 DEF Sender
  <2> QED
    BY <1>2, <1>13, <2>1 DEF SendCheck
<1>14. CASE Write(t)
  <2>1. [sender[t] EXCEPT !.todo = Tail(sender[t].todo), !.checked = FALSE].pc = sender[t].pc
    BY <1>1 DEF Sender
  <2> QED
    BY <1>1, <1>2, <1>14, <2>1 DEF Write
<1>15. CASE SendRefused(t) \/ SendFails(t)
  <2>1. Aborts(t)
    BY <1>15 DEF SendRefused, SendFails
  <2> QED
    BY <1>1, <1>2, <2>1 DEF Aborts
<1> QED
  BY <1>4, <1>5, <1>6, <1>7, <1>8, <1>9, <1>10, <1>11, <1>12, <1>13, <1>14, <1>15 DEF Sends, SendStep

LEMMA StepCounted == TypeInv /\ [Next]_vars => Counted'
<1> SUFFICES ASSUME TypeInv, [Next]_vars PROVE Counted'
  OBVIOUS
<1>1. /\ ids.p \in Nat /\ ids.b \in Nat /\ budget.sends \in Nat /\ MaxSends \in Nat
      /\ Cardinality(WillOpen) \in Nat /\ Cardinality(WillClaim) \in Nat
  BY Sent, Bounds, CountedFinite
<1>2. /\ ids.p + Cardinality(WillOpen) + budget.sends <= MaxSends
      /\ ids.b + Cardinality(WillClaim) + budget.sends <= MaxSends
  BY DEF TypeInv, Counted
<1>3. Counted' <=> /\ ids'.p + Cardinality(WillOpen') + budget'.sends <= MaxSends
                   /\ ids'.b + Cardinality(WillClaim') + budget'.sends <= MaxSends
  BY DEF Counted
<1>4. ASSUME NEW t \in Senders, Sends(t), SentBy(t) PROVE Counted'
  <2>1. sender' = [sender EXCEPT ![t] = sender'[t]] /\ budget'.sends \in Nat /\ budget'.sends <= budget.sends
    BY <1>1, <1>4, Bounds DEF SentBy, Budget
  <2>2. /\ Cardinality(WillOpen') \in Nat /\ Cardinality(WillOpen') <= Cardinality(WillOpen) + 1
        /\ sender'[t].pc \in BeforePrompt /\ sender[t].pc \in BeforePrompt
           => Cardinality(WillOpen') <= Cardinality(WillOpen)
        /\ sender'[t].pc \notin BeforePrompt => Cardinality(WillOpen') <= Cardinality(WillOpen)
        /\ sender'[t].pc \notin BeforePrompt /\ sender[t].pc \in BeforePrompt
           => Cardinality(WillOpen') + 1 <= Cardinality(WillOpen)
    BY <2>1, CountOne
  <2>3. /\ Cardinality(WillClaim') \in Nat /\ Cardinality(WillClaim') <= Cardinality(WillClaim) + 1
        /\ sender'[t].pc \in BeforeBlock /\ sender[t].pc \in BeforeBlock
           => Cardinality(WillClaim') <= Cardinality(WillClaim)
        /\ sender'[t].pc \notin BeforeBlock => Cardinality(WillClaim') <= Cardinality(WillClaim)
        /\ sender'[t].pc \notin BeforeBlock /\ sender[t].pc \in BeforeBlock
           => Cardinality(WillClaim') + 1 <= Cardinality(WillClaim)
    BY <2>1, CountOne
  <2>4. ids'.p + Cardinality(WillOpen') + budget'.sends <= MaxSends
    BY <1>1, <1>2, <1>4, <2>1, <2>2, Goes DEF BeforePrompt
  <2>5. ids'.b + Cardinality(WillClaim') + budget'.sends <= MaxSends
    BY <1>1, <1>2, <1>4, <2>1, <2>3, Goes DEF BeforeBlock
  <2> QED
    BY <1>3, <2>4, <2>5
<1>5. CASE Aside
  <2>1. WillOpen' = WillOpen /\ WillClaim' = WillClaim /\ ids' = ids
    BY <1>5 DEF Aside, WillOpen, WillClaim
  <2>2. budget'.sends \in Nat /\ budget'.sends <= budget.sends
    BY <1>5, Bounds DEF Aside, Budget
  <2> QED
    BY <1>1, <1>2, <1>3, <2>1, <2>2
<1> QED
  BY <1>4, <1>5, StepSends

LEMMA InitTypeInv == Init => TypeInv
<1> SUFFICES ASSUME Init PROVE TypeInv
  OBVIOUS
<1>1. /\ budget \in Budget /\ budget.sends \in 0 .. MaxSends
      /\ prompt = [id |-> None, eot |-> FALSE, system |-> FALSE] /\ audio = None /\ promptMu = Nobody
      /\ ids = [p |-> None, b |-> None] /\ sender = [t \in Senders |-> Idle]
  BY SonicBounds DEF Init, Budget
<1>2. Idle \in Sender
  BY DEF Idle, Sender, Op
<1>3. SendType
  BY <1>1, <1>2 DEF SendType
<1>4. CloseType
  <2>1. <<>> \in Seq(Event)
    OBVIOUS
  <2>2. closed = FALSE /\ closer = [pc |-> "idle", todo |-> <<>>]
    BY DEF Init
  <2> QED
    BY <2>1, <2>2 DEF CloseType
<1>5. EventType
  BY DEF Init, EventType
<1>6. LoopType
  BY Bounds DEF Init, LoopType, Frame
<1>7. \A t \in Senders : sender[t] = Idle
  BY <1>1
<1>8. Idle.pc = "idle" /\ Idle.op = "eot"
  BY DEF Idle
<1>9. Shapes
  BY <1>1, <1>7, <1>8, Bounds DEF Shapes, Shape, Alone
<1>10. CloserShape
  BY DEF Init, CloserShape
<1>11. Counted
  <2>1. WillOpen = {} /\ WillClaim = {}
    BY <1>7, <1>8 DEF WillOpen, WillClaim
  <2>2. ids.p = 0 /\ ids.b = 0
    BY <1>1 DEF None
  <2> QED
    BY <1>1, <2>1, <2>2, Bounds, FS_EmptySet DEF Counted
<1> QED
  BY <1>3, <1>4, <1>5, <1>6, <1>9, <1>10, <1>11 DEF TypeInv, TypeOK

LEMMA StepTypeInv == TypeInv /\ [Next]_vars => TypeInv'
<1>1. TypeInv => LoopFacts
  BY LoopFactsType DEF TypeInv, TypeOK
<1>2. LoopFacts' <=> LoopType'
  BY DEF LoopFacts, LoopType, Loop, Blocks
<1> QED
  BY <1>1, <1>2, StepSendType, StepCloseType, StepEventType, StepLoop, StepCloserShape, StepCounted DEF TypeInv, TypeOK

\* SonicSession.TypeInv is an invariant: what each goroutine has to write is known, and
\* there is a name for every prompt and block that may get one.
LEMMA TypeAlways == Spec => []TypeInv
BY InitTypeInv, StepTypeInv, PTL DEF Spec

\* SonicSession.TypeOK holds in every state, whoever sends and whatever fails.
THEOREM TypeCorrect == Spec => []TypeOK
<1>1. TypeInv => TypeOK
  BY DEF TypeInv
<1> QED
  BY <1>1, TypeAlways, PTL

(***************************************************************************)
(* What the caller is given.                                               *)
(***************************************************************************)
\* SonicSession.FramesMatch: what recvLoop puts on the Recv stream (sonic.go recvLoop) is
\* what the server said, once and in order: no text of a speculative block, one call for
\* each complete tool block.
THEOREM FramesMatchAlways == Spec => []FramesMatch
<1>1. Init => LoopInv
  <2> SUFFICES ASSUME Init PROVE LoopInv
    OBVIOUS
  <2>1. LoopFacts
    BY InitTypeInv, LoopFactsType DEF TypeInv, TypeOK
  <2>2. Follows /\ FramesMatch
    BY DEF Init, Follows, FollowsAt, FramesMatch
  <2> QED
    BY <2>1, <2>2 DEF LoopInv
<1>2. LoopInv /\ [Next]_vars => LoopInv'
  BY StepLoop DEF LoopInv
<1>3. LoopInv => FramesMatch
  BY DEF LoopInv
<1> QED
  BY <1>1, <1>2, <1>3, PTL DEF Spec

(***************************************************************************)
(* What the steps do, in the terms of the protocol.                        *)
(***************************************************************************)
Ending(t) == sender[t].pc = "rest" /\ sender[t].op = "eot"
Opening(t, p) == sender[t].pc = "open" /\ sender[t].p = p
EndsPrompt(t, p) == Ending(t) /\ sender[t].p = p
EndsBlock(t, b) == Ending(t) /\ Head(sender[t].todo).ev = "end" /\ Head(sender[t].todo).b = b
WillTell(t) == sender[t].pc = "open" /\ sender[t].sys /\ Len(sender[t].todo) >= 2
WillStart(t) == sender[t].pc = "open" /\ sender[t].todo # <<>> /\ Head(sender[t].todo).ev = "prompt_start"

\* Steps that have to do with neither a prompt's start nor its end.
Quiet(t) ==
  /\ UNCHANGED <<prompt, es, fate>> /\ ids'.p = ids.p
  /\ \/ audio' = audio /\ ids'.b = ids.b
     \/ audio = None /\ audio' = ids.b + 1 /\ ids'.b = ids.b + 1
  /\ sender[t].pc # "open" /\ sender'[t].pc # "open" /\ ~Ending(t) /\ ~Ending(t)'

BeginsPrompt(t) ==
  /\ sender[t].pc = "recheck" /\ sender'[t].pc = "open" /\ sender'[t].p = ids.p + 1 /\ ids'.p = ids.p + 1 /\ ids'.b = ids.b
  /\ sender'[t].sys = ~prompt.system /\ ~sender'[t].checked
  /\ prompt.id = None /\ prompt'.id = None /\ prompt'.eot = prompt.eot /\ prompt'.system
  /\ UNCHANGED <<audio, es, fate>>

HasPrompt(t) ==
  /\ sender[t].pc = "open" /\ sender'[t].pc = "body" /\ prompt.id = None
  /\ prompt'.id = sender[t].p /\ ~prompt'.eot /\ prompt'.system = prompt.system
  /\ UNCHANGED <<ids, audio, es, fate>>

BeginsEnd(t) ==
  /\ sender[t].pc = "idle" /\ Ending(t)' /\ sender'[t].p = prompt.id
  /\ prompt.id # None /\ ~prompt.eot /\ prompt'.id = prompt.id /\ prompt'.eot /\ prompt'.system = prompt.system
  /\ audio' = None /\ (Head(sender'[t].todo).ev = "end" => audio # None /\ Head(sender'[t].todo).b = audio)
  /\ UNCHANGED <<ids, es, fate>>

Checks(t) ==
  /\ ~closed /\ sender'[t].pc = sender[t].pc /\ sender'[t].op = sender[t].op /\ sender'[t].p = sender[t].p
  /\ sender'[t].todo = sender[t].todo /\ sender'[t].sys = sender[t].sys
  /\ UNCHANGED <<prompt, ids, audio, es, fate>>

WritesNext(t) ==
  /\ AtWrite(t) /\ es.open /\ es' = Told(Head(sender[t].todo)) /\ UNCHANGED <<prompt, ids, audio, fate>>
  /\ \/ sender'[t].pc = "idle" /\ sender[t].pc \in {"raw", "rest"} /\ Tail(sender[t].todo) = <<>>
     \/ /\ sender'[t].pc = sender[t].pc /\ sender'[t].op = sender[t].op /\ sender'[t].p = sender[t].p
        /\ sender'[t].todo = Tail(sender[t].todo) /\ sender'[t].sys = sender[t].sys /\ ~sender'[t].checked
        /\ (sender[t].pc \in {"raw", "rest"} => Tail(sender[t].todo) # <<>>)

GivesUp(t) ==
  /\ sender[t].todo # <<>> /\ sender'[t].pc = "idle"
  /\ prompt'.id = prompt.id /\ prompt'.eot = prompt.eot
  /\ \/ prompt'.system = prompt.system
     \/ ~prompt'.system /\ sender[t].sys /\ WillStart(t)
  /\ fate' = IF sender[t].pc = "open" \/ sender[t].op = "eot" THEN [fate EXCEPT !.abandoned = @ \cup {sender[t].p}] ELSE fate
  /\ audio' \in {audio, None} /\ es' \in {es, [es EXCEPT !.failed = TRUE]} /\ ids' = ids

LEMMA SenderEffect ==
  ASSUME TypeInv, NEW t \in Senders, Sends(t)
  PROVE  /\ \A u \in Senders \ {t} : sender'[u] = sender[u]
         /\ Quiet(t) \/ BeginsPrompt(t) \/ HasPrompt(t) \/ BeginsEnd(t) \/ Checks(t) \/ WritesNext(t) \/ GivesUp(t)
<1>1. /\ sender \in [Senders -> Sender] /\ sender[t] \in Sender /\ Shape(sender[t]) /\ Alone(t)
      /\ prompt \in [id : Names \cup {None}, eot : BOOLEAN, system : BOOLEAN] /\ prompt.id \in Names \cup {None}
      /\ ids \in Named /\ ids.p \in Nat /\ ids.b \in Nat /\ audio \in Names \cup {None}
  BY Sent, Bounds
<1>2. \A u \in Senders \ {t} : sender'[u] = sender[u]
  <2>1. SentBy(t)
    BY SenderStep DEF Sends
  <2> QED
    BY <1>1, <2>1 DEF SentBy
<1>3. ASSUME NEW s, Becomes(t, s) PROVE sender'[t] = s
  BY <1>1, <1>3 DEF Becomes
<1>4. /\ \A pc, todo : Writing(t, pc, todo).pc = pc /\ Writing(t, pc, todo).op = sender[t].op
                       /\ Writing(t, pc, todo).todo = todo /\ Writing(t, pc, todo).checked = FALSE
      /\ \A pc : Next_(t, pc).pc = pc /\ Next_(t, pc).op = sender[t].op
  BY <1>1 DEF Writing, Next_, Sender
<1>5. Idle.pc = "idle" /\ Idle.op = "eot"
  BY DEF Idle
<1>6. CASE Begin(t)
  <2>1. PICK op \in budget.ops \ {"eot"} :
          sender'[t] = [Idle EXCEPT !.op = op, !.pc = IF prompt.id # None THEN "body" ELSE "wait"]
    BY <1>3, <1>6 DEF Begin
  <2>2. sender'[t].pc \in {"body", "wait"}
    BY <2>1 DEF Idle
  <2>3. UNCHANGED <<prompt, es, fate, audio, ids>> /\ sender[t].pc = "idle"
    BY <1>6 DEF Begin
  <2>4. Quiet(t)
    BY <2>2, <2>3 DEF Quiet, Ending
  <2> QED
    BY <1>2, <2>4
<1>7. CASE Lock(t)
  <2>1. sender'[t].pc = "recheck" /\ sender[t].pc = "wait" /\ UNCHANGED <<prompt, es, fate, audio, ids>>
    BY <1>3, <1>4, <1>7 DEF Lock
  <2>2. Quiet(t)
    BY <2>1 DEF Quiet, Ending
  <2> QED
    BY <1>2, <2>2
<1>8. CASE AlreadyOpen(t)
  <2>1. sender'[t].pc = "body" /\ sender[t].pc = "recheck" /\ UNCHANGED <<prompt, es, fate, audio, ids>>
    BY <1>3, <1>4, <1>8 DEF AlreadyOpen
  <2>2. Quiet(t)
    BY <2>1 DEF Quiet, Ending
  <2> QED
    BY <1>2, <2>2
<1>9. CASE Open(t)
  <2> DEFINE s == Writing(t, "open", <<Ev("prompt_start", ids'.p, None)>> \o (IF prompt.system THEN <<>> ELSE System(ids'.p)))
             z == [s EXCEPT !.p = ids'.p, !.sys = ~prompt.system]
  <2>1. sender'[t] = z /\ ids' = [ids EXCEPT !.p = @ + 1]
    BY <1>3, <1>9 DEF Open
  <2>2. z.pc = "open" /\ z.p = ids'.p /\ z.sys = ~prompt.system /\ z.checked = FALSE
    BY <1>1 DEF Writing, Sender
  <2>3. ids'.p = ids.p + 1 /\ ids'.b = ids.b
    BY <1>1, <2>1 DEF Named
  <2> HIDE DEF z
  <2>4. /\ UNCHANGED <<audio, es, fate>> /\ sender[t].pc = "recheck" /\ prompt.id = None
        /\ prompt' = [prompt EXCEPT !.system = TRUE]
    BY <1>9 DEF Open, Recheck
  <2>5. prompt'.id = None /\ prompt'.eot = prompt.eot /\ prompt'.system
    BY <1>1, <2>4
  <2>6. BeginsPrompt(t)
    BY <2>1, <2>2, <2>3, <2>4, <2>5 DEF BeginsPrompt
  <2> QED
    BY <1>2, <2>6
<1>10. CASE Opened(t)
  <2>1. /\ sender[t].pc = "open" /\ sender'[t].pc = "body" /\ UNCHANGED <<ids, audio, es, fate>>
        /\ prompt' = [prompt EXCEPT !.id = sender[t].p, !.eot = FALSE]
    BY <1>3, <1>4, <1>10 DEF Opened
  <2>2. prompt'.id = sender[t].p /\ ~prompt'.eot /\ prompt'.system = prompt.system
    BY <1>1, <2>1
  <2>3. prompt.id = None
    BY <1>1, <2>1 DEF Alone
  <2>4. HasPrompt(t)
    BY <2>1, <2>2, <2>3 DEF HasPrompt
  <2> QED
    BY <1>2, <2>4
<1>11. CASE Claim(t)
  <2> DEFINE s == Writing(t, "claim", <<Ev("start", prompt.id, ids'.b)>>)
             z == [s EXCEPT !.p = prompt.id, !.b = ids'.b]
  <2>1. sender'[t] = z /\ ids' = [ids EXCEPT !.b = @ + 1]
    BY <1>3, <1>11 DEF Claim
  <2>2. z.pc = "claim"
    BY <1>1 DEF Writing, Sender
  <2> HIDE DEF z
  <2>3. ids'.p = ids.p /\ ids'.b = ids.b + 1
    BY <1>1, <2>1 DEF Named
  <2>4. UNCHANGED <<prompt, es, fate>> /\ audio = None /\ audio' = ids'.b /\ sender[t].pc = "body"
    BY <1>11 DEF Claim
  <2>5. Quiet(t)
    BY <2>1, <2>2, <2>3, <2>4 DEF Quiet, Ending
  <2> QED
    BY <1>2, <2>5
<1>12. CASE Join(t) \/ Claimed(t)
  <2>1. \A p, b : Raw(t, p, b).pc = "raw"
    BY <1>1 DEF Raw, Writing, Sender
  <2>2. sender'[t].pc = "raw" /\ sender[t].pc \in {"body", "claim"} /\ UNCHANGED <<prompt, es, fate, audio, ids>>
    BY <1>3, <1>12, <2>1 DEF Join, Claimed
  <2>3. Quiet(t)
    BY <2>2 DEF Quiet, Ending
  <2> QED
    BY <1>2, <2>3
<1>13. CASE Content(t)
  <2>1. /\ sender'[t].pc = "rest" /\ sender[t].op # "eot" /\ sender'[t].op = sender[t].op /\ sender[t].pc = "body"
        /\ UNCHANGED <<prompt, es, fate, audio, ids>>
    BY <1>3, <1>4, <1>13 DEF Content
  <2>2. Quiet(t)
    BY <2>1 DEF Quiet, Ending
  <2> QED
    BY <1>2, <2>2
<1>14. CASE SendCheck(t)
  <2>1. sender'[t] = [sender[t] EXCEPT !.checked = TRUE] /\ ~closed /\ UNCHANGED <<prompt, ids, audio, es, fate>>
    BY <1>3, <1>14 DEF SendCheck
  <2>2. Checks(t)
    BY <1>1, <2>1 DEF Checks, Sender
  <2> QED
    BY <1>2, <2>2
<1>15. CASE Write(t)
  <2> DEFINE z == [sender[t] EXCEPT !.todo = Tail(sender[t].todo), !.checked = FALSE]
  <2>1. /\ AtWrite(t) /\ es.open /\ es' = Told(Head(sender[t].todo)) /\ UNCHANGED <<prompt, ids, audio, fate>>
        /\ sender'[t] = IF Tail(sender[t].todo) = <<>> /\ sender[t].pc \in {"raw", "rest"} THEN Idle ELSE z
    BY <1>3, <1>15 DEF Write, Writes
  <2>2. z.pc = sender[t].pc /\ z.op = sender[t].op /\ z.p = sender[t].p /\ z.todo = Tail(sender[t].todo)
        /\ z.sys = sender[t].sys /\ ~z.checked
    BY <1>1 DEF Sender
  <2> HIDE DEF z
  <2>3. WritesNext(t)
    BY <1>5, <2>1, <2>2 DEF WritesNext
  <2> QED
    BY <1>2, <2>3
<1>16. CASE SendRefused(t) \/ SendFails(t)
  <2>1. Aborts(t) /\ sender[t].todo # <<>> /\ es' \in {es, [es EXCEPT !.failed = TRUE]}
    BY <1>16 DEF SendRefused, SendFails, AtWrite, WriteFails
  <2> DEFINE first == sender[t].pc = "open" /\ Head(sender[t].todo).ev = "prompt_start"
  <2>2. /\ sender'[t] = Idle /\ ids' = ids /\ audio' \in {audio, None}
        /\ prompt' = IF first /\ sender[t].sys THEN [prompt EXCEPT !.system = FALSE] ELSE prompt
        /\ fate' = IF sender[t].pc = "open" \/ sender[t].op = "eot" THEN [fate EXCEPT !.abandoned = @ \cup {sender[t].p}] ELSE fate
    BY <1>3, <2>1 DEF Aborts
  <2>3. prompt'.id = prompt.id /\ prompt'.eot = prompt.eot
        /\ (prompt'.system = prompt.system \/ (~prompt'.system /\ sender[t].sys /\ first))
    BY <1>1, <2>2
  <2>4. GivesUp(t)
    BY <1>5, <2>1, <2>2, <2>3 DEF GivesUp, WillStart
  <2> QED
    BY <1>2, <2>4
<1>17. CASE EndOfTurn(t)
  <2> DEFINE pe == Ev("prompt_end", prompt.id, None)
             be == Ev("end", prompt.id, audio)
             todo == (IF audio = None THEN <<>> ELSE <<be>>) \o <<pe>>
             s == Writing(t, "rest", todo)
             z == [s EXCEPT !.op = "eot", !.p = prompt.id]
  <2>1. sender'[t] = z
    BY <1>3, <1>17 DEF EndOfTurn
  <2>2. z.pc = "rest" /\ z.op = "eot" /\ z.p = prompt.id /\ z.todo = todo
    BY <1>1 DEF Writing, Sender
  <2> HIDE DEF z, s
  <2>3. pe \in Event /\ be \in Event
    BY <1>1, Evs
  <2>4. pe.ev # "end" /\ be.b = audio
    BY DEF Ev
  <2>5. Head(todo).ev = "end" => audio # None /\ Head(todo).b = audio
    <3> HIDE DEF pe, be
    <3>1. CASE audio = None
      <4>1. todo = <<pe>>
        <5>1. todo = <<>> \o <<pe>>
          BY <3>1
        <5> QED
          BY <2>3, <5>1, Joins
      <4> QED
        BY <2>4, <4>1, Lists
    <3>2. CASE audio # None
      <4>1. todo = <<be, pe>>
        <5>1. todo = <<be>> \o <<pe>>
          BY <3>2
        <5> QED
          BY <2>3, <5>1, Joins
      <4> QED
        BY <2>4, <3>2, <4>1, Lists
    <3> QED
      BY <3>1, <3>2
  <2> HIDE DEF todo
  <2>6. /\ sender[t].pc = "idle" /\ prompt.id # None /\ ~prompt.eot /\ audio' = None
        /\ prompt' = [prompt EXCEPT !.eot = TRUE] /\ UNCHANGED <<ids, es, fate>>
    BY <1>17 DEF EndOfTurn
  <2>7. prompt'.id = prompt.id /\ prompt'.eot /\ prompt'.system = prompt.system
    BY <1>1, <2>6
  <2>8. BeginsEnd(t)
    BY <2>1, <2>2, <2>5, <2>6, <2>7 DEF BeginsEnd, Ending
  <2> QED
    BY <1>2, <2>8
<1> QED
  BY <1>6, <1>7, <1>8, <1>9, <1>10, <1>11, <1>12, <1>13, <1>14, <1>15, <1>16, <1>17 DEF Sends, SendStep

\* What the steps of Close and of recvLoop do.
BlockClosed ==
  /\ closer.pc = "block" /\ closer'.pc = "prompt" /\ audio' = None
  /\ (closer'.todo # <<>> => audio # None /\ Head(closer'.todo).b = audio)
  /\ UNCHANGED <<prompt, es, fate>>

PromptClosed ==
  /\ closer.pc = "prompt" /\ closer'.pc = "session" /\ prompt'.id = None /\ prompt'.eot = prompt.eot
  /\ (closer'.todo # <<>> <=> PromptLeft) /\ (PromptLeft => Head(closer'.todo).p = prompt.id)
  /\ \A t \in Senders : sender[t].pc = "open" \/ Ending(t) => sender[t].p \in fate'.missed
  /\ fate'.abandoned = fate.abandoned /\ fate'.completed = fate.completed
  /\ UNCHANGED <<audio, es>>

SessionClosed ==
  /\ closer.pc = "session" /\ closer.todo = <<>> /\ closer'.pc = "hang_up"
  /\ UNCHANGED <<prompt, audio, es, fate>>

CloserWrites ==
  /\ closer.todo # <<>> /\ closer'.todo = <<>> /\ closer'.pc = closer.pc
  /\ es' = Told(Head(closer.todo)) \/ es' = [es EXCEPT !.failed = TRUE]
  /\ UNCHANGED <<prompt, audio, fate>>

HungUp ==
  /\ closer.pc = "hang_up" /\ closer.todo = <<>> /\ closer'.pc = "done" /\ closer'.todo = <<>>
  /\ es' = [es EXCEPT !.open = FALSE]
  /\ UNCHANGED <<prompt, audio, fate>>

HasReset ==
  /\ prompt'.id = None /\ ~prompt'.eot /\ audio' = None
  /\ fate' = [fate EXCEPT !.completed = @ \cup ({prompt.id} \ {None})]
  /\ UNCHANGED <<closer, es>>

Apart ==
  /\ UNCHANGED <<prompt, audio, es, fate>>
  /\ closer' = closer \/ (closer.pc = "idle" /\ closer'.pc = "block")

LEMMA AsideEffect ==
  ASSUME TypeInv,
         \/ Close \/ CloseBlock \/ ClosePrompt \/ CloseSession \/ CloseWrite \/ HangUp
         \/ ReadEvent \/ Emit \/ Reset \/ LoopStops \/ StreamEnds \/ Receive
         \/ UNCHANGED vars
  PROVE  /\ UNCHANGED <<sender, ids>> /\ prompt'.system = prompt.system
         /\ Apart \/ BlockClosed \/ PromptClosed \/ SessionClosed \/ CloserWrites \/ HungUp \/ HasReset
<1>1. UNCHANGED <<sender, ids>> /\ prompt'.system = prompt.system
  BY AsideStep DEF Aside
<1>2. /\ closer \in [pc : {"idle", "block", "prompt", "session", "hang_up", "done"}, todo : Seq(Event)]
      /\ prompt \in [id : Names \cup {None}, eot : BOOLEAN, system : BOOLEAN]
      /\ prompt.id \in Names \cup {None} /\ audio \in Names \cup {None} /\ fate \in Fate
  BY Sent DEF TypeInv, TypeOK, CloseType, EventType, Fate
<1>3. CASE Close
  <2>1. UNCHANGED <<prompt, audio, es, fate>> /\ closer.pc = "idle" /\ closer' = [closer EXCEPT !.pc = "block"]
    BY <1>3 DEF Close
  <2>2. Apart
    BY <1>2, <2>1 DEF Apart
  <2> QED
    BY <1>1, <2>2
<1>4. CASE CloseBlock
  <2>1. /\ closer.pc = "block" /\ audio' = None /\ UNCHANGED <<prompt, es, fate>>
        /\ closer' = [pc |-> "prompt", todo |-> IF audio = None THEN <<>> ELSE <<Ev("end", prompt.id, audio)>>]
    BY <1>4 DEF CloseBlock
  <2>2. closer'.pc = "prompt" /\ closer'.todo = IF audio = None THEN <<>> ELSE <<Ev("end", prompt.id, audio)>>
    BY <2>1
  <2>3. Head(<<Ev("end", prompt.id, audio)>>).b = audio
    BY Lists DEF Ev
  <2>4. BlockClosed
    BY <2>1, <2>2, <2>3 DEF BlockClosed
  <2> QED
    BY <1>1, <2>4
<1>5. CASE ClosePrompt
  <2> DEFINE m == {sender[t].p : t \in {u \in Senders : sender[u].pc = "open" \/ (sender[u].pc = "rest" /\ sender[u].op = "eot")}}
  <2>1. /\ closer.pc = "prompt" /\ prompt' = [prompt EXCEPT !.id = None] /\ UNCHANGED <<audio, es>>
        /\ closer' = [pc |-> "session", todo |-> IF PromptLeft THEN <<Ev("prompt_end", prompt.id, None)>> ELSE <<>>]
        /\ fate' = [fate EXCEPT !.missed = m]
    BY <1>5 DEF ClosePrompt
  <2>2. closer'.pc = "session" /\ closer'.todo = IF PromptLeft THEN <<Ev("prompt_end", prompt.id, None)>> ELSE <<>>
    BY <2>1
  <2>3. Head(<<Ev("prompt_end", prompt.id, None)>>).p = prompt.id /\ <<Ev("prompt_end", prompt.id, None)>> # <<>>
    BY Lists DEF Ev
  <2>4. \A t \in Senders : sender[t].pc = "open" \/ Ending(t) => sender[t].p \in m
    BY DEF Ending
  <2> HIDE DEF m
  <2>5. fate'.missed = m /\ fate'.abandoned = fate.abandoned /\ fate'.completed = fate.completed
    BY <1>2, <2>1 DEF Fate
  <2>6. prompt'.id = None /\ prompt'.eot = prompt.eot
    BY <1>2, <2>1
  <2>7. PromptClosed
    BY <2>1, <2>2, <2>3, <2>4, <2>5, <2>6 DEF PromptClosed
  <2> QED
    BY <1>1, <2>7
<1>6. CASE CloseSession
  <2>1. SessionClosed
    BY <1>6 DEF CloseSession, SessionClosed
  <2> QED
    BY <1>1, <2>1
<1>7. CASE CloseWrite
  <2>1. closer.todo # <<>> /\ closer' = [closer EXCEPT !.todo = <<>>] /\ UNCHANGED <<prompt, audio, fate>>
    BY <1>7 DEF CloseWrite
  <2>2. closer'.todo = <<>> /\ closer'.pc = closer.pc
    BY <1>2, <2>1
  <2>3. es.open
    BY <2>1, Closes
  <2>4. es' = Told(Head(closer.todo)) \/ es' = [es EXCEPT !.failed = TRUE]
    BY <1>7, <2>3 DEF CloseWrite, Writes, WriteFails
  <2>5. CloserWrites
    BY <2>1, <2>2, <2>4 DEF CloserWrites
  <2> QED
    BY <1>1, <2>5
<1>8. CASE HangUp
  <2>1. /\ closer.pc = "hang_up" /\ closer.todo = <<>> /\ es' = [es EXCEPT !.open = FALSE]
        /\ closer' = [closer EXCEPT !.pc = "done"] /\ UNCHANGED <<prompt, audio, fate>>
    BY <1>8 DEF HangUp
  <2>2. closer'.pc = "done" /\ closer'.todo = <<>>
    BY <1>2, <2>1
  <2>3. HungUp
    BY <2>1, <2>2 DEF HungUp
  <2> QED
    BY <1>1, <2>3
<1>9. CASE ReadEvent \/ Emit
  <2>1. Apart
    BY <1>9 DEF ReadEvent, Emit, Looping, Apart
  <2> QED
    BY <1>1, <2>1
<1>10. CASE Reset
  <2>1. /\ prompt' = [prompt EXCEPT !.id = None, !.eot = FALSE] /\ audio' = None /\ UNCHANGED <<closer, es>>
        /\ fate' = [fate EXCEPT !.completed = @ \cup ({prompt.id} \ {None})]
    BY <1>10 DEF Reset, Looping
  <2>2. HasReset
    BY <1>2, <2>1 DEF HasReset
  <2> QED
    BY <1>1, <2>2
<1>11. CASE LoopStops \/ StreamEnds
  <2>1. Apart
    BY <1>11 DEF LoopStops, StreamEnds, Ends, Looping, Apart
  <2> QED
    BY <1>1, <2>1
<1>12. CASE Receive \/ UNCHANGED vars
  <2>1. Apart
    BY <1>12 DEF Receive, vars, Apart
  <2> QED
    BY <1>1, <2>1
<1> QED
  BY <1>3, <1>4, <1>5, <1>6, <1>7, <1>8, <1>9, <1>10, <1>11, <1>12

\* A step is that of a sender, or leaves the senders as they are.
LEMMA StepEffect ==
  ASSUME TypeInv, [Next]_vars
  PROVE  \/ \E t \in Senders :
              /\ Quiet(t) \/ BeginsPrompt(t) \/ HasPrompt(t) \/ BeginsEnd(t) \/ Checks(t) \/ WritesNext(t) \/ GivesUp(t)
              /\ \A u \in Senders \ {t} : sender'[u] = sender[u]
              /\ closer' = closer
         \/ /\ Apart \/ BlockClosed \/ PromptClosed \/ SessionClosed \/ CloserWrites \/ HungUp \/ HasReset
            /\ UNCHANGED <<sender, ids>> /\ prompt'.system = prompt.system
<1>1. ASSUME NEW t \in Senders, Sends(t)
      PROVE  /\ Quiet(t) \/ BeginsPrompt(t) \/ HasPrompt(t) \/ BeginsEnd(t) \/ Checks(t) \/ WritesNext(t) \/ GivesUp(t)
             /\ \A u \in Senders \ {t} : sender'[u] = sender[u]
             /\ closer' = closer
  BY <1>1, SenderEffect, SendsAlone
<1> QED
  BY <1>1, NextCases, AsideEffect

LEMMA ToldFacts ==
  ASSUME TypeInv, NEW e \in Event
  PROVE  /\ Told(e).started = IF e.ev = "prompt_start" THEN es.started \cup {e.p} ELSE es.started
         /\ \A n \in Names : Told(e).ends[n] = IF e.ev = "prompt_end" /\ e.p = n THEN es.ends[n] + 1 ELSE es.ends[n]
         /\ \A n \in Names : Told(e).blockEnds[n] = IF e.ev = "end" /\ e.b = n THEN es.blockEnds[n] + 1 ELSE es.blockEnds[n]
         /\ Told(e).system = IF e.ev = "system_text" THEN es.system + 1 ELSE es.system
         /\ Told(e).sessionEnds = IF e.ev = "session_end" THEN es.sessionEnds + 1 ELSE es.sessionEnds
         /\ Told(e).failed = es.failed
<1>1. es \in EventStream
  BY DEF TypeInv, TypeOK, EventType, EventStream
<1>2. CASE e.ev = "prompt_start"
  <2>1. Told(e) = [es EXCEPT !.started = @ \cup {e.p}]
    BY <1>2 DEF Told
  <2> QED
    BY <1>1, <1>2, <2>1 DEF EventStream
<1>3. CASE e.ev = "system_text"
  <2>1. Told(e) = [es EXCEPT !.system = @ + 1]
    BY <1>3 DEF Told
  <2> QED
    BY <1>1, <1>3, <2>1 DEF EventStream
<1>4. CASE e.ev = "end"
  <2>1. Told(e) = [es EXCEPT !.blockEnds[e.b] = @ + 1]
    BY <1>4 DEF Told
  <2> QED
    BY <1>1, <1>4, <2>1 DEF EventStream
<1>5. CASE e.ev = "prompt_end"
  <2>1. Told(e) = [es EXCEPT !.ends[e.p] = @ + 1]
    BY <1>5 DEF Told
  <2> QED
    BY <1>1, <1>5, <2>1 DEF EventStream
<1>6. CASE e.ev = "session_end"
  <2>1. Told(e) = [es EXCEPT !.sessionEnds = @ + 1]
    BY <1>6 DEF Told
  <2> QED
    BY <1>1, <1>6, <2>1 DEF EventStream
<1>7. CASE e.ev \notin {"prompt_start", "system_text", "end", "prompt_end", "session_end"}
  <2>1. Told(e) = es
    BY <1>7 DEF Told
  <2> QED
    BY <1>7, <2>1
<1> QED
  BY <1>2, <1>3, <1>4, <1>5, <1>6, <1>7

(***************************************************************************)
(* Nothing is ended twice.  A prompt that can yet be ended is not ended,   *)
(* and one goroutine at most is about to end it; so with blocks.           *)
(***************************************************************************)
ClosesPrompt(p) == closer.pc = "session" /\ closer.todo # <<>> /\ Head(closer.todo).p = p
CanEnd(p) == p > ids.p \/ (prompt.id = p /\ ~prompt.eot) \/ \E t \in Senders : Opening(t, p)

PromptOnce(p) ==
  /\ CanEnd(p) => ~ClosesPrompt(p) /\ \A t \in Senders : ~EndsPrompt(t, p)
  /\ \A t \in Senders : EndsPrompt(t, p) => ~ClosesPrompt(p) /\ \A u \in Senders \ {t} : ~EndsPrompt(u, p)
  /\ CanEnd(p) \/ ClosesPrompt(p) \/ (\E t \in Senders : EndsPrompt(t, p)) => es.ends[p] = 0
  /\ es.ends[p] <= 1

ClosesBlock(b) == closer.pc = "prompt" /\ closer.todo # <<>> /\ Head(closer.todo).b = b
CanEndBlock(b) == b > ids.b \/ audio = b

BlockOnce(b) ==
  /\ CanEndBlock(b) => ~ClosesBlock(b) /\ \A t \in Senders : ~EndsBlock(t, b)
  /\ \A t \in Senders : EndsBlock(t, b) => ~ClosesBlock(b) /\ \A u \in Senders \ {t} : ~EndsBlock(u, b)
  /\ CanEndBlock(b) \/ ClosesBlock(b) \/ (\E t \in Senders : EndsBlock(t, b)) => es.blockEnds[b] = 0
  /\ es.blockEnds[b] <= 1

\* The system prompt is sent by the one sender that found it unsent.
SystemOnce ==
  /\ ~prompt.system => es.system = 0
  /\ \A t \in Senders : WillTell(t) => es.system = 0
  /\ es.system <= 1

SessionOnce ==
  /\ closer.pc \in {"idle", "block", "prompt", "session"} \/ (closer.pc = "hang_up" /\ closer.todo # <<>>) => es.sessionEnds = 0
  /\ es.sessionEnds <= 1

OnceInv == TypeInv /\ (\A n \in Names : PromptOnce(n) /\ BlockOnce(n)) /\ SystemOnce /\ SessionOnce

\* What is next for a sender that writes.
LEMMA NextEvent ==
  ASSUME TypeInv, NEW t \in Senders, AtWrite(t)
  PROVE  LET e == Head(sender[t].todo)
             r == Tail(sender[t].todo)
         IN  /\ e \in Event /\ sender[t].todo # <<>> /\ sender[t].pc \in {"open", "claim", "raw", "rest"}
             /\ e.ev \in {"prompt_end", "end"} => Ending(t)
             /\ e.ev # "session_end"
             /\ e.ev = "system_text" => sender[t].pc = "open" /\ sender[t].sys /\ Len(sender[t].todo) = 2
             /\ e.ev = "prompt_start" => WillStart(t) /\ e.p = sender[t].p /\ sender[t].checked
             /\ Ending(t) =>
                  \/ e.ev = "prompt_end" /\ e.p = sender[t].p /\ r = <<>>
                  \/ e.ev = "end" /\ r # <<>> /\ Head(r).ev = "prompt_end"
             /\ sender[t].pc = "open" => /\ Len(r) = Len(sender[t].todo) - 1 /\ Len(sender[t].todo) \in Nat
                                         /\ r # <<>> => Head(r).ev # "prompt_start"
             /\ WillStart(t) /\ sender[t].sys => Len(sender[t].todo) = 4
<1> DEFINE s == sender[t]
           e == Head(s.todo)
           r == Tail(s.todo)
<1>1. s.todo # <<>> /\ (s.checked \/ s.pc = "raw")
  BY DEF AtWrite
<1>2. e \in Event /\ s.pc \in {"open", "claim", "raw", "rest"} /\ Len(r) = Len(s.todo) - 1 /\ Len(s.todo) \in Nat
  BY <1>1, Todo
<1>3. CASE s.pc = "open"
  <2>1. /\ e.ev \in {"prompt_start", "system_start", "system_text", "system_end"} /\ e.p = s.p
        /\ e.ev = "prompt_start" => (s.sys => Len(s.todo) = 4)
        /\ e.ev = "system_text" => s.sys /\ Len(s.todo) = 2
        /\ r # <<>> => Head(r).ev # "prompt_start"
    BY <1>1, <1>3, Todo
  <2> QED
    BY <1>1, <1>2, <1>3, <2>1 DEF Ending, WillStart
<1>4. CASE s.pc \in {"claim", "raw"}
  <2>1. e.ev \in {"start", "audio"}
    BY <1>1, <1>4, Todo
  <2> QED
    BY <1>1, <1>2, <1>4, <2>1 DEF Ending, WillStart
<1>5. CASE s.pc = "rest" /\ s.op # "eot"
  <2>1. e.ev \in {"start", "content"}
    BY <1>1, <1>5, Todo
  <2> QED
    BY <1>1, <1>2, <1>5, <2>1 DEF Ending, WillStart
<1>6. CASE s.pc = "rest" /\ s.op = "eot"
  <2> DEFINE pe == Ev("prompt_end", s.p, None)
  <2>1. \/ e = pe /\ r = <<>>
        \/ e.ev = "end" /\ r = <<pe>>
    BY <1>1, <1>6, Todo
  <2>2. pe.ev = "prompt_end" /\ pe.p = s.p
    BY DEF Ev
  <2> HIDE DEF pe
  <2>3. <<pe>> # <<>> /\ Head(<<pe>>) = pe
    BY Lists
  <2>4. \/ e.ev = "prompt_end" /\ e.p = s.p /\ r = <<>>
        \/ e.ev = "end" /\ r # <<>> /\ Head(r).ev = "prompt_end"
    BY <2>1, <2>2, <2>3
  <2> QED
    BY <1>1, <1>2, <1>6, <2>4 DEF Ending, WillStart
<1> QED
  BY <1>2, <1>3, <1>4, <1>5, <1>6

LEMMA StepPromptOnce ==
  ASSUME TypeInv, [Next]_vars, NEW p \in Names, PromptOnce(p)
  PROVE  PromptOnce(p)'
<1>1. /\ p \in Nat /\ p # None /\ ids.p \in Nat /\ es.ends[p] \in Nat /\ prompt.id <= ids.p /\ es \in EventStream
      /\ prompt.id \in Names \cup {None} /\ \A t \in Senders : Alone(t)
  <2>1. es \in EventStream /\ es.ends[p] \in Nat
    BY DEF TypeInv, TypeOK, EventType, EventStream
  <2>2. p \in Nat /\ p # None
    BY Bounds
  <2> QED
    BY <2>1, <2>2, Sent
<1>2. ASSUME CanEnd(p)' => CanEnd(p), ClosesPrompt(p)' => ClosesPrompt(p),
             \A t \in Senders : EndsPrompt(t, p)' => EndsPrompt(t, p), es'.ends[p] = es.ends[p]
      PROVE  PromptOnce(p)'
  BY <1>2 DEF PromptOnce
<1>3. ASSUME NEW t \in Senders, CanEnd(p), ~CanEnd(p)', ClosesPrompt(p)' => ClosesPrompt(p),
             \A u \in Senders \ {t} : EndsPrompt(u, p)' => EndsPrompt(u, p), es'.ends[p] = es.ends[p]
      PROVE  PromptOnce(p)'
  BY <1>3 DEF PromptOnce
<1>4. ASSUME CanEnd(p), ~CanEnd(p)', \A t \in Senders : EndsPrompt(t, p)' => EndsPrompt(t, p), es'.ends[p] = es.ends[p]
      PROVE  PromptOnce(p)'
  BY <1>4 DEF PromptOnce
<1>5. ASSUME NEW t \in Senders, EndsPrompt(t, p), ~EndsPrompt(t, p)', CanEnd(p)' => CanEnd(p),
             ClosesPrompt(p)' => ClosesPrompt(p), \A u \in Senders \ {t} : EndsPrompt(u, p)' => EndsPrompt(u, p),
             es'.ends[p] = es.ends[p] + 1
      PROVE  PromptOnce(p)'
  BY <1>1, <1>5 DEF PromptOnce
<1>6. ASSUME ClosesPrompt(p), ~ClosesPrompt(p)', CanEnd(p)' => CanEnd(p),
             \A t \in Senders : EndsPrompt(t, p)' => EndsPrompt(t, p), es'.ends[p] = es.ends[p] + 1
      PROVE  PromptOnce(p)'
  BY <1>1, <1>6 DEF PromptOnce
<1>7. ASSUME NEW t \in Senders, \A u \in Senders \ {t} : sender'[u] = sender[u], closer' = closer,
             Quiet(t) \/ BeginsPrompt(t) \/ HasPrompt(t) \/ BeginsEnd(t) \/ Checks(t) \/ WritesNext(t) \/ GivesUp(t)
      PROVE  PromptOnce(p)'
  <2>1. ClosesPrompt(p)' => ClosesPrompt(p)
    BY <1>7 DEF ClosesPrompt
  <2>2. \A u \in Senders \ {t} : (EndsPrompt(u, p)' <=> EndsPrompt(u, p)) /\ (Opening(u, p)' <=> Opening(u, p))
    BY <1>7 DEF EndsPrompt, Ending, Opening
  <2>3. CASE Quiet(t)
    <3>1. ~EndsPrompt(t, p)' /\ ~Opening(t, p)' /\ es'.ends[p] = es.ends[p] /\ ids'.p = ids.p /\ prompt' = prompt
      BY <2>3 DEF Quiet, EndsPrompt, Opening
    <3>2. CanEnd(p)' => CanEnd(p)
      BY <2>2, <3>1 DEF CanEnd
    <3> QED
      BY <1>2, <2>1, <2>2, <3>1, <3>2
  <2>4. CASE BeginsPrompt(t)
    <3>1. ~EndsPrompt(t, p)' /\ es'.ends[p] = es.ends[p]
      BY <2>4 DEF BeginsPrompt, EndsPrompt, Ending
    <3>2. CanEnd(p)' => CanEnd(p)
      <4>1. Opening(t, p)' => p > ids.p
        BY <1>1, <2>4 DEF BeginsPrompt, Opening
      <4>2. p > ids'.p => p > ids.p
        BY <1>1, <2>4 DEF BeginsPrompt
      <4>3. prompt'.id # p
        BY <1>1, <2>4 DEF BeginsPrompt
      <4> QED
        BY <2>2, <4>1, <4>2, <4>3 DEF CanEnd
    <3> QED
      BY <1>2, <2>1, <2>2, <3>1, <3>2
  <2>5. CASE HasPrompt(t)
    <3>1. ~EndsPrompt(t, p)' /\ ~Opening(t, p)' /\ es'.ends[p] = es.ends[p]
      BY <2>5 DEF HasPrompt, EndsPrompt, Ending, Opening
    <3>2. CanEnd(p)' => CanEnd(p)
      <4>1. prompt'.id = p => Opening(t, p)
        BY <2>5 DEF HasPrompt, Opening
      <4>2. ids' = ids
        BY <2>5 DEF HasPrompt
      <4> QED
        BY <2>2, <3>1, <4>1, <4>2 DEF CanEnd
    <3> QED
      BY <1>2, <2>1, <2>2, <3>1, <3>2
  <2>6. CASE BeginsEnd(t)
    <3>1. es'.ends[p] = es.ends[p] /\ ids' = ids /\ prompt'.id = prompt.id /\ prompt'.eot /\ prompt.id # None /\ ~prompt.eot
      BY <2>6 DEF BeginsEnd
    <3>2. ~Opening(t, p)' /\ (EndsPrompt(t, p)' => prompt.id = p)
      BY <2>6 DEF BeginsEnd, Ending, Opening, EndsPrompt
    <3>3. CanEnd(p)' => CanEnd(p)
      BY <2>2, <3>1, <3>2 DEF CanEnd
    <3>4. CASE prompt.id = p
      <4>1. CanEnd(p)
        BY <3>1, <3>4 DEF CanEnd
      <4>2. \A u \in Senders : ~Opening(u, p)
        BY <1>1, <3>1 DEF Alone, Opening
      <4>3. ~CanEnd(p)'
        BY <1>1, <2>2, <3>1, <3>2, <3>4, <4>2 DEF CanEnd
      <4> QED
        BY <1>3, <2>1, <2>2, <3>1, <4>1, <4>3
    <3>5. CASE prompt.id # p
      BY <1>2, <2>1, <2>2, <3>1, <3>2, <3>3, <3>5
    <3> QED
      BY <3>4, <3>5
  <2>7. CASE Checks(t)
    <3>1. (EndsPrompt(t, p)' <=> EndsPrompt(t, p)) /\ (Opening(t, p)' <=> Opening(t, p)) /\ UNCHANGED <<ids, prompt, es>>
      BY <2>7 DEF Checks, EndsPrompt, Ending, Opening
    <3>2. CanEnd(p)' => CanEnd(p)
      BY <2>2, <3>1 DEF CanEnd
    <3> QED
      BY <1>2, <2>1, <2>2, <3>1, <3>2
  <2>8. CASE WritesNext(t)
    <3> DEFINE e == Head(sender[t].todo)
    <3>1. es' = Told(e) /\ UNCHANGED <<prompt, ids>> /\ AtWrite(t)
      BY <2>8 DEF WritesNext
    <3>2. e \in Event /\ (e.ev = "prompt_end" => Ending(t) /\ e.p = sender[t].p /\ Tail(sender[t].todo) = <<>>)
      BY <3>1, NextEvent
    <3>3. es'.ends[p] = IF e.ev = "prompt_end" /\ e.p = p THEN es.ends[p] + 1 ELSE es.ends[p]
      BY <3>1, <3>2, ToldFacts
    <3>4. (EndsPrompt(t, p)' => EndsPrompt(t, p)) /\ (Opening(t, p)' => Opening(t, p))
      BY <2>8 DEF WritesNext, EndsPrompt, Ending, Opening
    <3>5. CanEnd(p)' => CanEnd(p)
      BY <2>2, <3>1, <3>4 DEF CanEnd
    <3>6. CASE e.ev = "prompt_end" /\ e.p = p
      <4>1. EndsPrompt(t, p) /\ ~EndsPrompt(t, p)'
        BY <2>8, <3>2, <3>6 DEF WritesNext, EndsPrompt, Ending
      <4> QED
        BY <1>5, <2>1, <2>2, <3>3, <3>5, <3>6, <4>1
    <3>7. CASE ~(e.ev = "prompt_end" /\ e.p = p)
      BY <1>2, <2>1, <2>2, <3>3, <3>4, <3>5, <3>7
    <3> QED
      BY <3>6, <3>7
  <2>9. CASE GivesUp(t)
    <3>1. ~EndsPrompt(t, p)' /\ ~Opening(t, p)' /\ ids' = ids /\ prompt'.id = prompt.id /\ prompt'.eot = prompt.eot
      BY <2>9 DEF GivesUp, EndsPrompt, Ending, Opening
    <3>2. es'.ends[p] = es.ends[p]
      BY <1>1, <2>9 DEF GivesUp, EventStream
    <3>3. CanEnd(p)' => CanEnd(p)
      BY <2>2, <3>1 DEF CanEnd
    <3> QED
      BY <1>2, <2>1, <2>2, <3>1, <3>2, <3>3
  <2> QED
    BY <1>7, <2>3, <2>4, <2>5, <2>6, <2>7, <2>8, <2>9
<1>8. ASSUME UNCHANGED <<sender, ids>>,
             Apart \/ BlockClosed \/ PromptClosed \/ SessionClosed \/ CloserWrites \/ HungUp \/ HasReset
      PROVE  PromptOnce(p)'
  <2>1. \A u \in Senders : (EndsPrompt(u, p)' <=> EndsPrompt(u, p)) /\ (Opening(u, p)' <=> Opening(u, p))
    BY <1>8 DEF EndsPrompt, Ending, Opening
  <2>2. ASSUME (prompt'.id = prompt.id /\ prompt'.eot = prompt.eot) \/ prompt'.id = None PROVE CanEnd(p)' => CanEnd(p)
    BY <1>1, <1>8, <2>1, <2>2 DEF CanEnd
  <2>3. CASE Apart
    BY <1>2, <2>1, <2>2, <2>3 DEF Apart, ClosesPrompt
  <2>4. CASE BlockClosed
    BY <1>2, <2>1, <2>2, <2>4 DEF BlockClosed, ClosesPrompt
  <2>5. CASE PromptClosed
    <3>1. CanEnd(p)' => CanEnd(p)
      BY <2>2, <2>5 DEF PromptClosed
    <3>2. es'.ends[p] = es.ends[p] /\ prompt'.id = None
      BY <2>5 DEF PromptClosed
    <3>3. CASE PromptLeft /\ prompt.id = p
      <4>1. CanEnd(p)
        BY <3>3 DEF CanEnd, PromptLeft
      <4>2. \A u \in Senders : ~Opening(u, p)
        BY <1>1, <3>3 DEF Alone, Opening
      <4>3. ~CanEnd(p)'
        BY <1>1, <1>8, <2>1, <3>2, <3>3, <4>2 DEF CanEnd
      <4> QED
        BY <1>4, <2>1, <3>2, <4>1, <4>3
    <3>4. CASE ~(PromptLeft /\ prompt.id = p)
      <4>1. ~ClosesPrompt(p)'
        BY <2>5, <3>4 DEF PromptClosed, ClosesPrompt
      <4> QED
        BY <1>2, <2>1, <3>1, <3>2, <4>1
    <3> QED
      BY <3>3, <3>4
  <2>6. CASE SessionClosed
    BY <1>2, <2>1, <2>2, <2>6 DEF SessionClosed, ClosesPrompt
  <2>7. CASE CloserWrites
    <3> DEFINE e == Head(closer.todo)
    <3>1. ~ClosesPrompt(p)'
      BY <2>7 DEF CloserWrites, ClosesPrompt
    <3>2. CanEnd(p)' => CanEnd(p)
      BY <2>2, <2>7 DEF CloserWrites
    <3>3. CASE es' = Told(e)
      <4>1. e \in Event /\ (e.ev = "prompt_end" /\ e.p = p => ClosesPrompt(p))
        BY <2>7, Closes DEF CloserWrites, ClosesPrompt
      <4>2. es'.ends[p] = IF e.ev = "prompt_end" /\ e.p = p THEN es.ends[p] + 1 ELSE es.ends[p]
        BY <3>3, <4>1, ToldFacts
      <4> QED
        BY <1>2, <1>6, <2>1, <3>1, <3>2, <4>1, <4>2
    <3>4. CASE es' = [es EXCEPT !.failed = TRUE]
      <4>1. es'.ends[p] = es.ends[p]
        BY <1>1, <3>4 DEF EventStream
      <4> QED
        BY <1>2, <2>1, <3>1, <3>2, <4>1
    <3> QED
      BY <2>7, <3>3, <3>4 DEF CloserWrites
  <2>8. CASE HungUp
    <3>1. es'.ends[p] = es.ends[p]
      BY <1>1, <2>8 DEF EventStream, HungUp
    <3> QED
      BY <1>2, <2>1, <2>2, <2>8, <3>1 DEF HungUp, ClosesPrompt
  <2>9. CASE HasReset
    BY <1>2, <2>1, <2>2, <2>9 DEF HasReset, ClosesPrompt
  <2> QED
    BY <1>8, <2>3, <2>4, <2>5, <2>6, <2>7, <2>8, <2>9
<1> QED
  BY <1>7, <1>8, StepEffect

LEMMA StepBlockOnce ==
  ASSUME TypeInv, [Next]_vars, NEW b \in Names, BlockOnce(b)
  PROVE  BlockOnce(b)'
<1>1. /\ b \in Nat /\ b # None /\ ids.b \in Nat /\ audio <= ids.b /\ es \in EventStream /\ es.blockEnds[b] \in Nat
      /\ audio \in Names \cup {None}
  <2>1. es \in EventStream /\ es.blockEnds[b] \in Nat
    BY DEF TypeInv, TypeOK, EventType, EventStream
  <2>2. b \in Nat /\ b # None
    BY Bounds
  <2> QED
    BY <2>1, <2>2, Sent
<1>2. ASSUME CanEndBlock(b)' => CanEndBlock(b), ClosesBlock(b)' => ClosesBlock(b),
             \A t \in Senders : EndsBlock(t, b)' => EndsBlock(t, b), es'.blockEnds[b] = es.blockEnds[b]
      PROVE  BlockOnce(b)'
  BY <1>2 DEF BlockOnce
<1>3. ASSUME NEW t \in Senders, CanEndBlock(b), ~CanEndBlock(b)', ClosesBlock(b)' => ClosesBlock(b),
             \A u \in Senders \ {t} : EndsBlock(u, b)' => EndsBlock(u, b), es'.blockEnds[b] = es.blockEnds[b]
      PROVE  BlockOnce(b)'
  BY <1>3 DEF BlockOnce
<1>4. ASSUME CanEndBlock(b), ~CanEndBlock(b)', \A t \in Senders : EndsBlock(t, b)' => EndsBlock(t, b),
             es'.blockEnds[b] = es.blockEnds[b]
      PROVE  BlockOnce(b)'
  BY <1>4 DEF BlockOnce
<1>5. ASSUME NEW t \in Senders, EndsBlock(t, b), ~EndsBlock(t, b)', CanEndBlock(b)' => CanEndBlock(b),
             ClosesBlock(b)' => ClosesBlock(b), \A u \in Senders \ {t} : EndsBlock(u, b)' => EndsBlock(u, b),
             es'.blockEnds[b] = es.blockEnds[b] + 1
      PROVE  BlockOnce(b)'
  BY <1>1, <1>5 DEF BlockOnce
<1>6. ASSUME ClosesBlock(b), ~ClosesBlock(b)', CanEndBlock(b)' => CanEndBlock(b),
             \A t \in Senders : EndsBlock(t, b)' => EndsBlock(t, b), es'.blockEnds[b] = es.blockEnds[b] + 1
      PROVE  BlockOnce(b)'
  BY <1>1, <1>6 DEF BlockOnce
<1>7. ASSUME NEW t \in Senders, \A u \in Senders \ {t} : sender'[u] = sender[u], closer' = closer,
             Quiet(t) \/ BeginsPrompt(t) \/ HasPrompt(t) \/ BeginsEnd(t) \/ Checks(t) \/ WritesNext(t) \/ GivesUp(t)
      PROVE  BlockOnce(b)'
  <2>1. ClosesBlock(b)' => ClosesBlock(b)
    BY <1>7 DEF ClosesBlock
  <2>2. \A u \in Senders \ {t} : EndsBlock(u, b)' <=> EndsBlock(u, b)
    BY <1>7 DEF EndsBlock, Ending
  <2>3. CASE Quiet(t)
    <3>1. ~EndsBlock(t, b)' /\ es'.blockEnds[b] = es.blockEnds[b]
      BY <2>3 DEF Quiet, EndsBlock
    <3>2. \/ audio' = audio /\ ids'.b = ids.b
          \/ audio' = ids.b + 1 /\ ids'.b = ids.b + 1
      BY <2>3 DEF Quiet
    <3>3. CanEndBlock(b)' => CanEndBlock(b)
      BY <1>1, <3>2 DEF CanEndBlock
    <3> QED
      BY <1>2, <2>1, <2>2, <3>1, <3>3
  <2>4. CASE BeginsPrompt(t)
    BY <1>2, <2>1, <2>2, <2>4 DEF BeginsPrompt, EndsBlock, Ending, CanEndBlock
  <2>5. CASE HasPrompt(t)
    BY <1>2, <2>1, <2>2, <2>5 DEF HasPrompt, EndsBlock, Ending, CanEndBlock
  <2>6. CASE BeginsEnd(t)
    <3>1. es'.blockEnds[b] = es.blockEnds[b] /\ ids' = ids /\ audio' = None
      BY <2>6 DEF BeginsEnd
    <3>2. EndsBlock(t, b)' => audio = b
      BY <2>6 DEF BeginsEnd, EndsBlock
    <3>3. CASE audio = b
      <4>1. CanEndBlock(b) /\ ~CanEndBlock(b)'
        BY <1>1, <3>1, <3>3 DEF CanEndBlock
      <4> QED
        BY <1>3, <2>1, <2>2, <3>1, <4>1
    <3>4. CASE audio # b
      <4>1. CanEndBlock(b)' => CanEndBlock(b)
        BY <1>1, <3>1 DEF CanEndBlock
      <4> QED
        BY <1>2, <2>1, <2>2, <3>1, <3>2, <3>4, <4>1
    <3> QED
      BY <3>3, <3>4
  <2>7. CASE Checks(t)
    BY <1>2, <2>1, <2>2, <2>7 DEF Checks, EndsBlock, Ending, CanEndBlock
  <2>8. CASE WritesNext(t)
    <3> DEFINE e == Head(sender[t].todo)
               r == Tail(sender[t].todo)
    <3>1. es' = Told(e) /\ UNCHANGED <<audio, ids>> /\ AtWrite(t)
      BY <2>8 DEF WritesNext
    <3>2. /\ e \in Event /\ (e.ev = "end" => Ending(t))
          /\ Ending(t) => (r = <<>> \/ (e.ev = "end" /\ Head(r).ev = "prompt_end"))
      BY <3>1, NextEvent
    <3>3. es'.blockEnds[b] = IF e.ev = "end" /\ e.b = b THEN es.blockEnds[b] + 1 ELSE es.blockEnds[b]
      BY <3>1, <3>2, ToldFacts
    <3>4. ~EndsBlock(t, b)'
      BY <2>8, <3>2 DEF WritesNext, EndsBlock, Ending
    <3>5. CanEndBlock(b)' => CanEndBlock(b)
      BY <3>1 DEF CanEndBlock
    <3>6. CASE e.ev = "end" /\ e.b = b
      <4>1. EndsBlock(t, b)
        BY <3>2, <3>6 DEF EndsBlock
      <4> QED
        BY <1>5, <2>1, <2>2, <3>3, <3>4, <3>5, <3>6, <4>1
    <3>7. CASE ~(e.ev = "end" /\ e.b = b)
      BY <1>2, <2>1, <2>2, <3>3, <3>4, <3>5, <3>7
    <3> QED
      BY <3>6, <3>7
  <2>9. CASE GivesUp(t)
    <3>1. ~EndsBlock(t, b)' /\ ids' = ids /\ audio' \in {audio, None}
      BY <2>9 DEF GivesUp, EndsBlock, Ending
    <3>2. es'.blockEnds[b] = es.blockEnds[b]
      BY <1>1, <2>9 DEF GivesUp, EventStream
    <3>3. CanEndBlock(b)' => CanEndBlock(b)
      BY <1>1, <3>1 DEF CanEndBlock
    <3> QED
      BY <1>2, <2>1, <2>2, <3>1, <3>2, <3>3
  <2> QED
    BY <1>7, <2>3, <2>4, <2>5, <2>6, <2>7, <2>8, <2>9
<1>8. ASSUME UNCHANGED <<sender, ids>>,
             Apart \/ BlockClosed \/ PromptClosed \/ SessionClosed \/ CloserWrites \/ HungUp \/ HasReset
      PROVE  BlockOnce(b)'
  <2>1. \A u \in Senders : EndsBlock(u, b)' <=> EndsBlock(u, b)
    BY <1>8 DEF EndsBlock, Ending
  <2>2. ASSUME audio' \in {audio, None} PROVE CanEndBlock(b)' => CanEndBlock(b)
    BY <1>1, <1>8, <2>2 DEF CanEndBlock
  <2>3. CASE Apart
    BY <1>2, <2>1, <2>2, <2>3 DEF Apart, ClosesBlock
  <2>4. CASE BlockClosed
    <3>1. es'.blockEnds[b] = es.blockEnds[b] /\ audio' = None
      BY <2>4 DEF BlockClosed
    <3>2. CASE audio = b
      <4>1. CanEndBlock(b) /\ ~CanEndBlock(b)'
        BY <1>1, <1>8, <3>1, <3>2 DEF CanEndBlock
      <4> QED
        BY <1>4, <2>1, <3>1, <4>1
    <3>3. CASE audio # b
      <4>1. ~ClosesBlock(b)'
        BY <2>4, <3>3 DEF BlockClosed, ClosesBlock
      <4> QED
        BY <1>2, <2>1, <2>2, <3>1, <4>1
    <3> QED
      BY <3>2, <3>3
  <2>5. CASE PromptClosed
    BY <1>2, <2>1, <2>2, <2>5 DEF PromptClosed, ClosesBlock
  <2>6. CASE SessionClosed
    BY <1>2, <2>1, <2>2, <2>6 DEF SessionClosed, ClosesBlock
  <2>7. CASE CloserWrites
    <3> DEFINE e == Head(closer.todo)
    <3>1. ~ClosesBlock(b)'
      BY <2>7 DEF CloserWrites, ClosesBlock
    <3>2. CanEndBlock(b)' => CanEndBlock(b)
      BY <2>2, <2>7 DEF CloserWrites
    <3>3. CASE es' = Told(e)
      <4>1. e \in Event /\ (e.ev = "end" /\ e.b = b => ClosesBlock(b))
        BY <2>7, Closes DEF CloserWrites, ClosesBlock
      <4>2. es'.blockEnds[b] = IF e.ev = "end" /\ e.b = b THEN es.blockEnds[b] + 1 ELSE es.blockEnds[b]
        BY <3>3, <4>1, ToldFacts
      <4> QED
        BY <1>2, <1>6, <2>1, <3>1, <3>2, <4>1, <4>2
    <3>4. CASE es' = [es EXCEPT !.failed = TRUE]
      <4>1. es'.blockEnds[b] = es.blockEnds[b]
        BY <1>1, <3>4 DEF EventStream
      <4> QED
        BY <1>2, <2>1, <3>1, <3>2, <4>1
    <3> QED
      BY <2>7, <3>3, <3>4 DEF CloserWrites
  <2>8. CASE HungUp
    <3>1. es'.blockEnds[b] = es.blockEnds[b]
      BY <1>1, <2>8 DEF EventStream, HungUp
    <3> QED
      BY <1>2, <2>1, <2>2, <2>8, <3>1 DEF HungUp, ClosesBlock
  <2>9. CASE HasReset
    BY <1>2, <2>1, <2>2, <2>9 DEF HasReset, ClosesBlock
  <2> QED
    BY <1>8, <2>3, <2>4, <2>5, <2>6, <2>7, <2>8, <2>9
<1> QED
  BY <1>7, <1>8, StepEffect

LEMMA StepSystemOnce ==
  ASSUME TypeInv, [Next]_vars, SystemOnce
  PROVE  SystemOnce'
<1>1. /\ es \in EventStream /\ es.system \in Nat /\ prompt.system \in BOOLEAN
      /\ \A t \in Senders : Alone(t) /\ sender[t].sys \in BOOLEAN
  <2>1. es \in EventStream /\ es.system \in Nat
    BY DEF TypeInv, TypeOK, EventType, EventStream
  <2>2. \A t \in Senders : sender[t].sys \in BOOLEAN
    BY Sent DEF Sender
  <2> QED
    BY <2>1, <2>2, Sent
<1>2. ASSUME prompt'.system = prompt.system, es'.system = es.system, \A t \in Senders : WillTell(t)' => WillTell(t)
      PROVE  SystemOnce'
  BY <1>2 DEF SystemOnce
<1>3. ASSUME NEW t \in Senders, \A u \in Senders \ {t} : sender'[u] = sender[u],
             Quiet(t) \/ BeginsPrompt(t) \/ HasPrompt(t) \/ BeginsEnd(t) \/ Checks(t) \/ WritesNext(t) \/ GivesUp(t)
      PROVE  SystemOnce'
  <2>1. \A u \in Senders \ {t} : WillTell(u)' <=> WillTell(u)
    BY <1>3 DEF WillTell
  <2>2. CASE Quiet(t)
    BY <1>2, <2>1, <2>2 DEF Quiet, WillTell
  <2>3. CASE BeginsPrompt(t)
    <3>1. es' = es /\ prompt'.system /\ sender'[t].sys = ~prompt.system
      BY <2>3 DEF BeginsPrompt
    <3>2. WillTell(t)' => es.system = 0
      BY <1>1, <3>1 DEF WillTell, SystemOnce
    <3> QED
      BY <2>1, <3>1, <3>2 DEF SystemOnce
  <2>4. CASE HasPrompt(t)
    BY <1>2, <2>1, <2>4 DEF HasPrompt, WillTell
  <2>5. CASE BeginsEnd(t)
    BY <1>2, <2>1, <2>5 DEF BeginsEnd, Ending, WillTell
  <2>6. CASE Checks(t)
    BY <1>2, <2>1, <2>6 DEF Checks, WillTell
  <2>7. CASE WritesNext(t)
    <3> DEFINE e == Head(sender[t].todo)
               r == Tail(sender[t].todo)
    <3>1. es' = Told(e) /\ prompt' = prompt /\ AtWrite(t)
      BY <2>7 DEF WritesNext
    <3>2. /\ e \in Event /\ (e.ev = "system_text" => sender[t].pc = "open" /\ sender[t].sys /\ Len(sender[t].todo) = 2)
          /\ sender[t].pc = "open" => Len(r) = Len(sender[t].todo) - 1 /\ Len(sender[t].todo) \in Nat
      BY <3>1, NextEvent
    <3>3. es'.system = IF e.ev = "system_text" THEN es.system + 1 ELSE es.system
      BY <3>1, <3>2, ToldFacts
    <3>4. WillTell(t)' => WillTell(t) /\ Len(sender[t].todo) >= 3
      <4> SUFFICES ASSUME WillTell(t)' PROVE WillTell(t) /\ Len(sender[t].todo) >= 3
        OBVIOUS
      <4>1. sender'[t].pc = "open" /\ sender'[t].sys /\ Len(sender'[t].todo) >= 2
        BY DEF WillTell
      <4>2. sender[t].pc = "open" /\ sender[t].sys /\ sender'[t].todo = r
        BY <2>7, <4>1 DEF WritesNext
      <4>3. Len(r) >= 2 /\ Len(r) = Len(sender[t].todo) - 1 /\ Len(sender[t].todo) \in Nat
        BY <3>2, <4>1, <4>2
      <4> HIDE DEF r
      <4>4. Len(sender[t].todo) >= 3
        BY <4>3
      <4> QED
        BY <4>2, <4>4 DEF WillTell
    <3>5. CASE e.ev = "system_text"
      <4>1. WillTell(t) /\ ~WillTell(t)'
        <5>1. sender[t].pc = "open" /\ sender[t].sys /\ Len(sender[t].todo) = 2
          BY <3>2, <3>5
        <5> QED
          BY <3>4, <5>1 DEF WillTell
      <4>2. \A u \in Senders \ {t} : ~WillTell(u)
        BY <1>1, <4>1 DEF WillTell, Alone
      <4>3. prompt.system
        BY <1>1, <4>1 DEF WillTell, Alone
      <4> QED
        BY <1>1, <2>1, <3>1, <3>3, <3>5, <4>1, <4>2, <4>3 DEF SystemOnce
    <3>6. CASE e.ev # "system_text"
      BY <1>2, <2>1, <3>1, <3>3, <3>4, <3>6
    <3> QED
      BY <3>5, <3>6
  <2>8. CASE GivesUp(t)
    <3>1. es'.system = es.system
      BY <1>1, <2>8 DEF GivesUp, EventStream
    <3>2. ~WillTell(t)'
      BY <2>8 DEF GivesUp, WillTell
    <3>3. CASE prompt'.system = prompt.system
      BY <1>2, <2>1, <3>1, <3>2, <3>3
    <3>4. CASE ~prompt'.system /\ sender[t].sys /\ WillStart(t)
      <4>1. Len(sender[t].todo) = 4
        <5>1. sender[t].todo # <<>> /\ sender[t].pc = "open" /\ Head(sender[t].todo).ev = "prompt_start"
          BY <3>4 DEF WillStart
        <5> QED
          BY <3>4, <5>1, Todo
      <4>2. WillTell(t)
        BY <3>4, <4>1 DEF WillTell, WillStart
      <4> QED
        BY <2>1, <3>1, <3>2, <4>2 DEF SystemOnce
    <3> QED
      BY <2>8, <3>3, <3>4 DEF GivesUp
  <2> QED
    BY <1>3, <2>2, <2>3, <2>4, <2>5, <2>6, <2>7, <2>8
<1>4. ASSUME sender' = sender, prompt'.system = prompt.system,
             Apart \/ BlockClosed \/ PromptClosed \/ SessionClosed \/ CloserWrites \/ HungUp \/ HasReset
      PROVE  SystemOnce'
  <2>1. \A t \in Senders : WillTell(t)' <=> WillTell(t)
    BY <1>4 DEF WillTell
  <2>2. es'.system = es.system
    <3>1. CASE Apart \/ BlockClosed \/ PromptClosed \/ SessionClosed \/ HasReset
      BY <3>1 DEF Apart, BlockClosed, PromptClosed, SessionClosed, HasReset
    <3>2. CASE CloserWrites
      <4>1. Head(closer.todo) \in Event /\ Head(closer.todo).ev # "system_text"
        BY <3>2, Closes DEF CloserWrites
      <4>2. Told(Head(closer.todo)).system = es.system
        BY <4>1, ToldFacts
      <4> QED
        BY <1>1, <3>2, <4>2 DEF CloserWrites, EventStream
    <3>3. CASE HungUp
      BY <1>1, <3>3 DEF HungUp, EventStream
    <3> QED
      BY <1>4, <3>1, <3>2, <3>3
  <2> QED
    BY <1>2, <1>4, <2>1, <2>2
<1> QED
  BY <1>3, <1>4, StepEffect

LEMMA StepSessionOnce ==
  ASSUME TypeInv, [Next]_vars, SessionOnce
  PROVE  SessionOnce'
<1> DEFINE Left == closer.pc \in {"idle", "block", "prompt", "session"} \/ (closer.pc = "hang_up" /\ closer.todo # <<>>)
<1>1. es \in EventStream /\ es.sessionEnds \in Nat
  BY DEF TypeInv, TypeOK, EventType, EventStream
<1>2. ASSUME es'.sessionEnds = es.sessionEnds, Left' => Left PROVE SessionOnce'
  BY <1>2 DEF SessionOnce
<1>3. ASSUME NEW t \in Senders, closer' = closer,
             Quiet(t) \/ BeginsPrompt(t) \/ HasPrompt(t) \/ BeginsEnd(t) \/ Checks(t) \/ WritesNext(t) \/ GivesUp(t)
      PROVE  SessionOnce'
  <2>1. es'.sessionEnds = es.sessionEnds
    <3>1. CASE Quiet(t) \/ BeginsPrompt(t) \/ HasPrompt(t) \/ BeginsEnd(t) \/ Checks(t)
      BY <3>1 DEF Quiet, BeginsPrompt, HasPrompt, BeginsEnd, Checks
    <3>2. CASE WritesNext(t)
      <4>1. Head(sender[t].todo) \in Event /\ Head(sender[t].todo).ev # "session_end"
        BY <3>2, NextEvent DEF WritesNext
      <4>2. Told(Head(sender[t].todo)).sessionEnds = es.sessionEnds
        BY <4>1, ToldFacts
      <4> QED
        BY <3>2, <4>2 DEF WritesNext
    <3>3. CASE GivesUp(t)
      BY <1>1, <3>3 DEF GivesUp, EventStream
    <3> QED
      BY <1>3, <3>1, <3>2, <3>3
  <2> QED
    BY <1>2, <1>3, <2>1
<1>4. CASE Apart \/ BlockClosed \/ PromptClosed \/ SessionClosed \/ HasReset
  BY <1>2, <1>4 DEF Apart, BlockClosed, PromptClosed, SessionClosed, HasReset
<1>5. CASE CloserWrites
  <2> DEFINE e == Head(closer.todo)
  <2>1. /\ e \in Event /\ closer.pc \in {"prompt", "session", "hang_up"} /\ closer.todo # <<>>
        /\ closer.pc # "hang_up" => e.ev \in {"end", "prompt_end"}
        /\ closer.pc = "hang_up" => e.ev = "session_end"
    BY <1>5, Closes DEF CloserWrites
  <2>2. closer'.pc = closer.pc /\ closer'.todo = <<>>
    BY <1>5 DEF CloserWrites
  <2>3. CASE es' = Told(e)
    <3>1. es'.sessionEnds = IF e.ev = "session_end" THEN es.sessionEnds + 1 ELSE es.sessionEnds
      BY <2>1, <2>3, ToldFacts
    <3> QED
      BY <1>1, <2>1, <2>2, <3>1 DEF SessionOnce
  <2>4. CASE es' = [es EXCEPT !.failed = TRUE]
    <3>1. es'.sessionEnds = es.sessionEnds
      BY <1>1, <2>4 DEF EventStream
    <3> QED
      BY <1>2, <2>1, <2>2, <3>1
  <2> QED
    BY <1>5, <2>3, <2>4 DEF CloserWrites
<1>6. CASE HungUp
  <2>1. es'.sessionEnds = es.sessionEnds
    BY <1>1, <1>6 DEF HungUp, EventStream
  <2> QED
    BY <1>2, <1>6, <2>1 DEF HungUp
<1> QED
  BY <1>3, <1>4, <1>5, <1>6, StepEffect

LEMMA StepOnceInv == OnceInv /\ [Next]_vars => OnceInv'
<1> SUFFICES ASSUME OnceInv, [Next]_vars PROVE OnceInv'
  OBVIOUS
<1>1. TypeInv /\ (\A n \in Names : PromptOnce(n) /\ BlockOnce(n)) /\ SystemOnce /\ SessionOnce
  BY DEF OnceInv
<1>2. \A n \in Names : PromptOnce(n)' /\ BlockOnce(n)'
  BY <1>1, StepPromptOnce, StepBlockOnce
<1> QED
  BY <1>1, <1>2, StepTypeInv, StepSystemOnce, StepSessionOnce DEF OnceInv

LEMMA InitOnceInv == Init => OnceInv
<1> SUFFICES ASSUME Init PROVE OnceInv
  OBVIOUS
<1>1. /\ es = [open |-> TRUE, started |-> {}, ends |-> [n \in Names |-> 0], blockEnds |-> [n \in Names |-> 0],
               system |-> 0, sessionEnds |-> 0, failed |-> FALSE]
      /\ closer = [pc |-> "idle", todo |-> <<>>]
      /\ \A t \in Senders : sender[t].pc = "idle"
  BY DEF Init, Idle
<1>2. ASSUME NEW n \in Names PROVE PromptOnce(n) /\ BlockOnce(n)
  BY <1>1 DEF PromptOnce, BlockOnce, EndsPrompt, EndsBlock, Ending, ClosesPrompt, ClosesBlock
<1>3. SystemOnce /\ SessionOnce
  BY <1>1 DEF SystemOnce, SessionOnce
<1> QED
  BY <1>2, <1>3, InitTypeInv DEF OnceInv

(***************************************************************************)
(* One prompt at a time, and all of them ended.                            *)
(***************************************************************************)
Flushing == closer.pc \in {"session", "hang_up", "done"}

\* A sender that will start a prompt has none before it.
NoneBefore == \A t \in Senders : WillStart(t) /\ (~Flushing \/ sender[t].checked) => Unfinished = {}

\* Of the prompts that are not ended someone knows, until Close looks for them; and then
\* Close ends them, or has missed them.
Known == ~Flushing => \A p \in Unfinished : p = prompt.id \/ \E t \in Senders : Opening(t, p)
Ended == \A p \in Unfinished : p = prompt.id /\ prompt.eot => \E t \in Senders : EndsPrompt(t, p)
Flushed ==
  Flushing /\ ~es.failed =>
    /\ \A p \in Unfinished : p \in fate.missed \/ ClosesPrompt(p)
    /\ \A t \in Senders : WillStart(t) /\ sender[t].checked => sender[t].p \in fate.missed

OneInv == OnceInv /\ NoneBefore /\ Known /\ Ended /\ Flushed /\ OnePrompt

SenderKind(t) ==
  /\ Quiet(t) \/ BeginsPrompt(t) \/ HasPrompt(t) \/ BeginsEnd(t) \/ Checks(t) \/ WritesNext(t) \/ GivesUp(t)
  /\ \A u \in Senders \ {t} : sender'[u] = sender[u]
  /\ closer' = closer
AsideKind ==
  /\ Apart \/ BlockClosed \/ PromptClosed \/ SessionClosed \/ CloserWrites \/ HungUp \/ HasReset
  /\ sender' = sender

LEMMA StepKinds ==
  ASSUME TypeInv, [Next]_vars
  PROVE  (\E t \in Senders : SenderKind(t)) \/ AsideKind
BY StepEffect DEF SenderKind, AsideKind

LEMMA StreamFacts ==
  ASSUME TypeInv
  PROVE  /\ es \in EventStream /\ fate \in Fate /\ Unfinished \in SUBSET Names /\ None \notin Unfinished
         /\ \A p : p \in Unfinished <=> p \in es.started /\ es.ends[p] = 0 /\ p \notin fate.abandoned /\ p \notin fate.completed
         /\ \A t \in Senders : sender[t].pc = "open" => promptMu = t /\ prompt.id = None
         /\ \A t, u \in Senders : sender[t].pc = "open" /\ sender[u].pc \in {"open", "recheck"} => t = u
<1>1. es \in EventStream /\ fate \in Fate
  BY DEF TypeInv, TypeOK, EventType, EventStream, Fate
<1>2. \A t \in Senders : Alone(t)
  BY Sent
<1>3. Unfinished \in SUBSET Names
  BY <1>1 DEF Unfinished, EventStream
<1> QED
  BY <1>1, <1>2, <1>3, Bounds DEF Unfinished, Alone

\* A prompt comes to be unfinished only by being started.
Starts(t) == WritesNext(t) /\ WillStart(t) /\ sender[t].checked

LEMMA Fewer ==
  ASSUME TypeInv, es'.started = es.started, \A p \in Names : es'.ends[p] = 0 => es.ends[p] = 0,
         fate.abandoned \subseteq fate'.abandoned, fate.completed \subseteq fate'.completed
  PROVE  Unfinished' \subseteq Unfinished
<1>1. es \in EventStream
  BY StreamFacts
<1>2. es.started \subseteq Names
  BY <1>1 DEF EventStream
<1> QED
  BY <1>2 DEF Unfinished

LEMMA UnfinishedAside == TypeInv /\ AsideKind => Unfinished' \subseteq Unfinished
<1> SUFFICES ASSUME TypeInv, AsideKind PROVE Unfinished' \subseteq Unfinished
  OBVIOUS
<1>1. es \in EventStream /\ fate \in Fate
  BY StreamFacts
<1>2. CASE Apart \/ BlockClosed \/ SessionClosed
  BY <1>2, Fewer DEF Apart, BlockClosed, SessionClosed
<1>3. CASE PromptClosed
  BY <1>3, Fewer DEF PromptClosed
<1>4. CASE CloserWrites
  <2> DEFINE e == Head(closer.todo)
  <2>1. fate' = fate /\ e \in Event /\ e.ev # "prompt_start"
    BY <1>4, Closes DEF CloserWrites
  <2>2. CASE es' = Told(e)
    <3>1. Told(e).started = es.started
      BY <2>1, ToldFacts
    <3>2. \A p \in Names : Told(e).ends[p] = IF e.ev = "prompt_end" /\ e.p = p THEN es.ends[p] + 1 ELSE es.ends[p]
      BY <2>1, ToldFacts
    <3>3. \A p \in Names : es'.ends[p] = 0 => es.ends[p] = 0
      BY <1>1, <2>2, <3>2 DEF EventStream
    <3> QED
      BY <2>1, <2>2, <3>1, <3>3, Fewer
  <2>3. CASE es' = [es EXCEPT !.failed = TRUE]
    <3>1. es'.started = es.started /\ es'.ends = es.ends
      BY <1>1, <2>3 DEF EventStream
    <3> QED
      BY <2>1, <3>1, Fewer
  <2> QED
    BY <1>4, <2>2, <2>3 DEF CloserWrites
<1>5. CASE HungUp
  <2>1. es'.started = es.started /\ es'.ends = es.ends /\ fate' = fate
    BY <1>1, <1>5 DEF EventStream, HungUp
  <2> QED
    BY <2>1, Fewer
<1>6. CASE HasReset
  <2>1. es' = es /\ fate.abandoned \subseteq fate'.abandoned /\ fate.completed \subseteq fate'.completed
    BY <1>1, <1>6 DEF Fate, HasReset
  <2> QED
    BY <2>1, Fewer
<1> QED
  BY <1>2, <1>3, <1>4, <1>5, <1>6 DEF AsideKind

LEMMA UnfinishedSender ==
  ASSUME TypeInv, NEW t \in Senders, SenderKind(t)
  PROVE  \/ Unfinished' \subseteq Unfinished
         \/ Starts(t) /\ Unfinished' \subseteq Unfinished \cup {sender[t].p}
<1>1. es \in EventStream /\ fate \in Fate
  BY StreamFacts
<1>2. CASE Quiet(t) \/ BeginsPrompt(t) \/ HasPrompt(t) \/ BeginsEnd(t) \/ Checks(t)
  BY <1>2, Fewer DEF Quiet, BeginsPrompt, HasPrompt, BeginsEnd, Checks
<1>3. CASE GivesUp(t)
  <2>1. es'.started = es.started /\ es'.ends = es.ends
    BY <1>1, <1>3 DEF GivesUp, EventStream
  <2>2. fate.abandoned \subseteq fate'.abandoned /\ fate.completed \subseteq fate'.completed
    BY <1>1, <1>3 DEF GivesUp, Fate
  <2> QED
    BY <2>1, <2>2, Fewer
<1>4. CASE WritesNext(t)
  <2> DEFINE e == Head(sender[t].todo)
  <2>1. fate' = fate /\ es' = Told(e) /\ AtWrite(t)
    BY <1>4 DEF WritesNext
  <2>2. e \in Event /\ (e.ev = "prompt_start" => WillStart(t) /\ e.p = sender[t].p /\ sender[t].checked)
    BY <2>1, NextEvent
  <2>3. \A p \in Names : Told(e).ends[p] = IF e.ev = "prompt_end" /\ e.p = p THEN es.ends[p] + 1 ELSE es.ends[p]
    BY <2>2, ToldFacts
  <2>4. \A p \in Names : es'.ends[p] = 0 => es.ends[p] = 0
    BY <1>1, <2>1, <2>3 DEF EventStream
  <2>5. Told(e).started = IF e.ev = "prompt_start" THEN es.started \cup {e.p} ELSE es.started
    BY <2>2, ToldFacts
  <2>6. CASE e.ev = "prompt_start"
    <3>1. Starts(t) /\ e.p = sender[t].p
      BY <1>4, <2>2, <2>6 DEF Starts
    <3>2. es'.started = es.started \cup {sender[t].p} /\ es.started \subseteq Names
      BY <1>1, <2>1, <2>5, <2>6, <3>1 DEF EventStream
    <3>3. Unfinished' \subseteq Unfinished \cup {sender[t].p}
      BY <2>1, <2>4, <3>2 DEF Unfinished
    <3> QED
      BY <3>1, <3>3
  <2>7. CASE e.ev # "prompt_start"
    BY <2>1, <2>4, <2>5, <2>7, Fewer
  <2> QED
    BY <2>6, <2>7
<1> QED
  BY <1>2, <1>3, <1>4 DEF SenderKind

LEMMA FlushingKept ==
  ASSUME TypeInv
  PROVE  /\ \A t \in Senders : SenderKind(t) => (Flushing' <=> Flushing)
         /\ AsideKind => (Flushing => Flushing')
<1>1. \A t \in Senders : SenderKind(t) => (Flushing' <=> Flushing)
  BY DEF SenderKind, Flushing
<1>2. CASE Apart \/ BlockClosed \/ PromptClosed \/ SessionClosed
  BY <1>1, <1>2 DEF Flushing, Apart, BlockClosed, PromptClosed, SessionClosed
<1>3. CASE CloserWrites \/ HungUp \/ HasReset
  BY <1>1, <1>3 DEF Flushing, CloserWrites, HungUp, HasReset
<1> QED
  BY <1>1, <1>2, <1>3 DEF AsideKind

\* A sender that starts its prompt does not start it again.
LEMMA StartedOnce ==
  ASSUME TypeInv, NEW t \in Senders, WritesNext(t)
  PROVE  ~WillStart(t)'
<1>1. AtWrite(t) /\ (sender'[t].pc = "open" => sender[t].pc = "open" /\ sender'[t].todo = Tail(sender[t].todo))
  BY DEF WritesNext
<1>2. sender[t].pc = "open" => (Tail(sender[t].todo) # <<>> => Head(Tail(sender[t].todo)).ev # "prompt_start")
  BY <1>1, NextEvent
<1> QED
  BY <1>1, <1>2 DEF WillStart

LEMMA StepNoneBefore ==
  ASSUME TypeInv, NoneBefore, Known, [Next]_vars
  PROVE  NoneBefore'
<1> SUFFICES ASSUME NEW u \in Senders, WillStart(u)', ~Flushing' \/ sender'[u].checked PROVE Unfinished' = {}
  BY DEF NoneBefore
<1>1. sender'[u].pc = "open"
  BY DEF WillStart
<1>2. \A v, w \in Senders : sender[v].pc = "open" /\ sender[w].pc \in {"open", "recheck"} => v = w
  BY StreamFacts
<1>3. ASSUME NEW t \in Senders, SenderKind(t) PROVE Unfinished' = {}
  <2>1. (Flushing' <=> Flushing)
    BY <1>3, FlushingKept
  <2>2. CASE u # t
    <3>1. WillStart(u) /\ (~Flushing \/ sender[u].checked) /\ sender[u].pc = "open"
      BY <1>3, <2>1, <2>2 DEF SenderKind, WillStart
    <3>2. Unfinished = {}
      BY <3>1 DEF NoneBefore
    <3>3. ~Starts(t)
      BY <1>2, <2>2, <3>1 DEF Starts, WillStart
    <3> QED
      BY <1>3, <3>2, <3>3, UnfinishedSender
  <2>3. CASE u = t
    <3>1. CASE Quiet(t) \/ HasPrompt(t) \/ GivesUp(t)
      BY <1>1, <2>3, <3>1 DEF Quiet, HasPrompt, GivesUp
    <3>2. CASE BeginsEnd(t)
      BY <1>1, <2>3, <3>2 DEF BeginsEnd, Ending
    <3>3. CASE WritesNext(t)
      BY <2>3, <3>3, StartedOnce
    <3>4. CASE Checks(t)
      <4>1. ~closed /\ CloserShape
        BY <3>4 DEF Checks, TypeInv
      <4>2. ~Flushing
        BY <4>1 DEF CloserShape, Flushing
      <4>3. WillStart(t)
        BY <2>3, <3>4 DEF Checks, WillStart
      <4>4. Unfinished = {} /\ es' = es /\ fate' = fate
        BY <3>4, <4>2, <4>3 DEF NoneBefore, Checks
      <4> QED
        BY <4>4 DEF Unfinished
    <3>5. CASE BeginsPrompt(t)
      <4>1. ~Flushing /\ sender[t].pc = "recheck" /\ prompt.id = None /\ es' = es /\ fate' = fate
        BY <2>1, <2>3, <3>5 DEF BeginsPrompt
      <4>2. ASSUME NEW p \in Unfinished PROVE FALSE
        <5>1. p # prompt.id
          BY <4>1, <4>2, StreamFacts
        <5>2. PICK v \in Senders : Opening(v, p)
          BY <4>1, <4>2, <5>1 DEF Known
        <5> QED
          BY <1>2, <4>1, <5>2 DEF Opening
      <4> QED
        BY <4>1, <4>2 DEF Unfinished
    <3> QED
      BY <1>3, <3>1, <3>2, <3>3, <3>4, <3>5 DEF SenderKind
  <2> QED
    BY <2>2, <2>3
<1>4. CASE AsideKind
  <2>1. WillStart(u) /\ (~Flushing \/ sender[u].checked)
    BY <1>4, FlushingKept DEF AsideKind, WillStart
  <2>2. Unfinished = {}
    BY <2>1 DEF NoneBefore
  <2> QED
    BY <1>4, <2>2, UnfinishedAside
<1> QED
  BY <1>3, <1>4, StepKinds

LEMMA StepKnown ==
  ASSUME TypeInv, Known, [Next]_vars
  PROVE  Known'
<1> SUFFICES ASSUME ~Flushing', NEW p \in Unfinished' PROVE p = prompt'.id \/ \E t \in Senders : Opening(t, p)'
  BY DEF Known
<1>1. ASSUME ~Flushing, p \in Unfinished PROVE p = prompt.id \/ \E t \in Senders : Opening(t, p)
  BY <1>1 DEF Known
<1>2. p \in Unfinished => p # None
  BY StreamFacts
<1>3. p \notin fate'.abandoned /\ p \notin fate'.completed
  BY DEF Unfinished
<1>4. ASSUME NEW t \in Senders, SenderKind(t) PROVE p = prompt'.id \/ \E u \in Senders : Opening(u, p)'
  <2>1. ~Flushing /\ \A u \in Senders \ {t} : Opening(u, p) => Opening(u, p)'
    BY <1>4, FlushingKept DEF SenderKind, Opening
  <2>2. CASE p \notin Unfinished
    <3>1. WritesNext(t) /\ WillStart(t) /\ p = sender[t].p
      BY <1>4, <2>2, UnfinishedSender DEF Starts
    <3>2. Opening(t, p)'
      BY <3>1 DEF WritesNext, WillStart, Opening
    <3> QED
      BY <3>2
  <2>3. CASE p \in Unfinished
    <3>1. p = prompt.id \/ \E u \in Senders : Opening(u, p)
      BY <1>1, <2>1, <2>3
    <3>2. CASE Quiet(t)
      BY <2>1, <3>1, <3>2 DEF Quiet, Opening
    <3>3. CASE BeginsPrompt(t)
      BY <2>1, <3>1, <3>3 DEF BeginsPrompt, Opening
    <3>4. CASE HasPrompt(t)
      BY <1>2, <2>1, <2>3, <3>1, <3>4 DEF HasPrompt, Opening
    <3>5. CASE BeginsEnd(t)
      BY <2>1, <3>1, <3>5 DEF BeginsEnd, Opening
    <3>6. CASE Checks(t)
      BY <2>1, <3>1, <3>6 DEF Checks, Opening
    <3>7. CASE WritesNext(t)
      BY <2>1, <3>1, <3>7 DEF WritesNext, Opening
    <3>8. CASE GivesUp(t)
      <4>1. fate \in Fate /\ prompt'.id = prompt.id
        BY <3>8, StreamFacts DEF GivesUp
      <4>2. Opening(t, p) => p \in fate'.abandoned
        BY <3>8, <4>1 DEF GivesUp, Opening, Fate
      <4> QED
        BY <1>3, <2>1, <3>1, <4>1, <4>2
    <3> QED
      BY <1>4, <3>2, <3>3, <3>4, <3>5, <3>6, <3>7, <3>8 DEF SenderKind
  <2> QED
    BY <2>2, <2>3
<1>5. CASE AsideKind
  <2>1. p = prompt.id \/ \E u \in Senders : Opening(u, p)
    BY <1>1, <1>5, FlushingKept, UnfinishedAside
  <2>2. \A u \in Senders : Opening(u, p) => Opening(u, p)'
    BY <1>5 DEF AsideKind, Opening
  <2>3. CASE Apart \/ BlockClosed \/ SessionClosed \/ CloserWrites \/ HungUp
    BY <2>1, <2>2, <2>3 DEF Apart, BlockClosed, SessionClosed, CloserWrites, HungUp
  <2>4. CASE PromptClosed
    BY <2>4 DEF PromptClosed, Flushing
  <2>5. CASE HasReset
    <3>1. fate \in Fate /\ p # None
      BY <1>2, <1>5, StreamFacts, UnfinishedAside
    <3>2. p # prompt.id
      BY <1>3, <2>5, <3>1 DEF HasReset, Fate
    <3> QED
      BY <2>1, <2>2, <3>2
  <2> QED
    BY <1>5, <2>3, <2>4, <2>5 DEF AsideKind
<1> QED
  BY <1>4, <1>5, StepKinds

LEMMA StepEnded ==
  ASSUME TypeInv, Ended, [Next]_vars
  PROVE  Ended'
<1> SUFFICES ASSUME NEW p \in Unfinished', p = prompt'.id, prompt'.eot PROVE \E t \in Senders : EndsPrompt(t, p)'
  BY DEF Ended
<1>1. ASSUME p \in Unfinished, p = prompt.id, prompt.eot PROVE \E t \in Senders : EndsPrompt(t, p)
  BY <1>1 DEF Ended
<1>2. p \in Unfinished => p # None
  BY StreamFacts
<1>3. p \notin fate'.abandoned /\ es'.ends[p] = 0
  BY DEF Unfinished
<1>4. ASSUME NEW t \in Senders, SenderKind(t) PROVE \E u \in Senders : EndsPrompt(u, p)'
  <2>1. \A u \in Senders \ {t} : EndsPrompt(u, p) => EndsPrompt(u, p)'
    BY <1>4 DEF SenderKind, EndsPrompt, Ending
  <2>2. sender[t].p # None => p # None
    BY <1>2, <1>4, UnfinishedSender
  <2>3. CASE Quiet(t)
    <3>1. p \in Unfinished
      BY <1>4, <2>3, UnfinishedSender DEF Quiet, Starts, WillStart
    <3>2. PICK u \in Senders : EndsPrompt(u, p)
      BY <1>1, <2>3, <3>1 DEF Quiet
    <3> QED
      BY <2>1, <2>3, <3>2 DEF Quiet, EndsPrompt
  <2>4. CASE BeginsPrompt(t)
    <3>1. p \in Unfinished
      BY <1>4, <2>4, UnfinishedSender DEF BeginsPrompt, Starts, WillStart
    <3> QED
      BY <1>2, <2>4, <3>1 DEF BeginsPrompt
  <2>5. CASE HasPrompt(t)
    BY <2>5 DEF HasPrompt
  <2>6. CASE BeginsEnd(t)
    <3>1. EndsPrompt(t, p)'
      BY <2>6 DEF BeginsEnd, EndsPrompt
    <3> QED
      BY <3>1
  <2>7. CASE Checks(t)
    <3>1. es' = es /\ fate' = fate /\ prompt' = prompt
      BY <2>7 DEF Checks
    <3>2. p \in Unfinished
      BY <3>1 DEF Unfinished
    <3>3. PICK u \in Senders : EndsPrompt(u, p)
      BY <1>1, <3>1, <3>2
    <3> QED
      BY <2>1, <2>7, <3>3 DEF Checks, EndsPrompt, Ending
  <2>8. CASE WritesNext(t)
    <3> DEFINE e == Head(sender[t].todo)
    <3>1. prompt' = prompt /\ AtWrite(t) /\ es' = Told(e)
      BY <2>8 DEF WritesNext
    <3>2. p \in Unfinished
      <4>1. ASSUME Starts(t), p = sender[t].p PROVE p \in Unfinished
        <5>1. prompt.id = None /\ sender[t].todo # <<>> /\ sender[t].pc = "open"
          BY <4>1, StreamFacts DEF Starts, WillStart
        <5>2. p \in Names
          BY <4>1, <5>1, Todo
        <5> QED
          BY <3>1, <5>1, <5>2, Bounds
      <4> QED
        BY <1>4, <4>1, UnfinishedSender
    <3>3. PICK u \in Senders : EndsPrompt(u, p)
      BY <1>1, <3>1, <3>2
    <3>4. CASE u # t
      BY <2>1, <3>3, <3>4
    <3>5. CASE u = t
      <4>1. Ending(t) /\ sender[t].p = p
        BY <3>3, <3>5 DEF EndsPrompt
      <4>2. e \in Event /\ (\/ e.ev = "prompt_end" /\ e.p = sender[t].p
                            \/ e.ev = "end" /\ Tail(sender[t].todo) # <<>>)
        BY <3>1, <4>1, NextEvent
      <4>3. CASE e.ev = "prompt_end" /\ e.p = sender[t].p
        <5>1. p \in Names /\ es.ends[p] \in Nat
          BY <3>2, StreamFacts DEF EventStream
        <5>2. \A n \in Names : Told(e).ends[n] = IF e.ev = "prompt_end" /\ e.p = n THEN es.ends[n] + 1 ELSE es.ends[n]
          BY <4>2, ToldFacts
        <5>3. es'.ends[p] = es.ends[p] + 1
          BY <3>1, <4>1, <4>3, <5>1, <5>2
        <5> QED
          BY <1>3, <5>1, <5>3
      <4>4. CASE e.ev = "end" /\ Tail(sender[t].todo) # <<>>
        BY <2>8, <4>1, <4>4 DEF WritesNext, EndsPrompt, Ending
      <4> QED
        BY <4>2, <4>3, <4>4
    <3> QED
      BY <3>4, <3>5
  <2>9. CASE GivesUp(t)
    <3>1. p \in Unfinished
      <4>1. ~Starts(t) \/ Unfinished' \subseteq Unfinished
        <5>1. Starts(t) => sender[t].pc = "open"
          BY DEF Starts, WillStart
        <5>2. Starts(t) => sender'[t].pc = "open"
          BY <5>1 DEF Starts, WritesNext
        <5> QED
          BY <2>9, <5>2 DEF GivesUp
      <4> QED
        BY <1>4, <4>1, UnfinishedSender
    <3>2. PICK u \in Senders : EndsPrompt(u, p)
      BY <1>1, <2>9, <3>1 DEF GivesUp
    <3>3. fate \in Fate
      BY StreamFacts
    <3>4. u # t
      BY <1>3, <2>9, <3>2, <3>3 DEF GivesUp, EndsPrompt, Ending, Fate
    <3> QED
      BY <2>1, <3>2, <3>4
  <2> QED
    BY <1>4, <2>3, <2>4, <2>5, <2>6, <2>7, <2>8, <2>9 DEF SenderKind
<1>5. CASE AsideKind
  <2>1. p \in Unfinished /\ p # None
    BY <1>2, <1>5, UnfinishedAside
  <2>2. prompt'.id = prompt.id /\ prompt'.eot = prompt.eot
    <3>1. CASE Apart \/ BlockClosed \/ SessionClosed \/ CloserWrites \/ HungUp
      BY <3>1 DEF Apart, BlockClosed, SessionClosed, CloserWrites, HungUp
    <3>2. CASE PromptClosed \/ HasReset
      BY <2>1, <3>2 DEF PromptClosed, HasReset
    <3> QED
      BY <1>5, <3>1, <3>2 DEF AsideKind
  <2>3. PICK u \in Senders : EndsPrompt(u, p)
    BY <1>1, <2>1, <2>2
  <2> QED
    BY <1>5, <2>3 DEF AsideKind, EndsPrompt, Ending
<1> QED
  BY <1>4, <1>5, StepKinds

LEMMA StepFlushed ==
  ASSUME TypeInv, Known, Ended, Flushed, [Next]_vars
  PROVE  Flushed'
<1> SUFFICES ASSUME Flushing', ~es'.failed
             PROVE  /\ \A p \in Unfinished' : p \in fate'.missed \/ ClosesPrompt(p)'
                    /\ \A u \in Senders : WillStart(u)' /\ sender'[u].checked => sender'[u].p \in fate'.missed
  BY DEF Flushed
<1>1. es \in EventStream /\ fate \in Fate /\ CloserShape
  BY StreamFacts DEF TypeInv
<1>2. ASSUME Flushing, ~es.failed
      PROVE  /\ \A p \in Unfinished : p \in fate.missed \/ ClosesPrompt(p)
             /\ \A u \in Senders : WillStart(u) /\ sender[u].checked => sender[u].p \in fate.missed
  BY <1>2 DEF Flushed
<1>3. ASSUME NEW t \in Senders, SenderKind(t)
      PROVE  /\ \A p \in Unfinished' : p \in fate'.missed \/ ClosesPrompt(p)'
             /\ \A u \in Senders : WillStart(u)' /\ sender'[u].checked => sender'[u].p \in fate'.missed
  <2>1. Flushing /\ closed /\ closer' = closer
    BY <1>1, <1>3, FlushingKept DEF SenderKind, CloserShape, Flushing
  <2>2. ~es.failed /\ fate'.missed = fate.missed
    <3>1. CASE Quiet(t) \/ BeginsPrompt(t) \/ HasPrompt(t) \/ BeginsEnd(t) \/ Checks(t)
      BY <3>1 DEF Quiet, BeginsPrompt, HasPrompt, BeginsEnd, Checks
    <3>2. CASE WritesNext(t)
      <4>1. Head(sender[t].todo) \in Event
        BY <3>2, NextEvent DEF WritesNext
      <4>2. Told(Head(sender[t].todo)).failed = es.failed
        BY <4>1, ToldFacts
      <4> QED
        BY <3>2, <4>2 DEF WritesNext
    <3>3. CASE GivesUp(t)
      BY <1>1, <3>3 DEF GivesUp, EventStream, Fate
    <3> QED
      BY <1>3, <3>1, <3>2, <3>3 DEF SenderKind
  <2>3. /\ \A p \in Unfinished : p \in fate.missed \/ ClosesPrompt(p)
        /\ \A u \in Senders : WillStart(u) /\ sender[u].checked => sender[u].p \in fate.missed
    BY <1>2, <2>1, <2>2
  <2>4. \A p \in Unfinished' : p \in fate'.missed \/ ClosesPrompt(p)'
    <3> SUFFICES ASSUME NEW p \in Unfinished' PROVE p \in fate'.missed \/ ClosesPrompt(p)'
      OBVIOUS
    <3>1. p \in Unfinished \/ (Starts(t) /\ p = sender[t].p)
      BY <1>3, UnfinishedSender
    <3>2. ClosesPrompt(p) => ClosesPrompt(p)'
      BY <2>1 DEF ClosesPrompt
    <3> QED
      BY <2>2, <2>3, <3>1, <3>2 DEF Starts
  <2>5. ASSUME NEW u \in Senders, WillStart(u)', sender'[u].checked PROVE sender'[u].p \in fate'.missed
    <3>1. CASE u # t
      BY <1>3, <2>2, <2>3, <2>5, <3>1 DEF SenderKind, WillStart
    <3>2. CASE u = t
      <4>1. sender'[t].pc = "open"
        BY <2>5, <3>2 DEF WillStart
      <4>2. CASE Quiet(t) \/ HasPrompt(t) \/ GivesUp(t)
        BY <4>1, <4>2 DEF Quiet, HasPrompt, GivesUp
      <4>3. CASE BeginsEnd(t)
        BY <4>1, <4>3 DEF BeginsEnd, Ending
      <4>4. CASE BeginsPrompt(t)
        BY <2>5, <3>2, <4>4 DEF BeginsPrompt
      <4>5. CASE Checks(t)
        BY <2>1, <4>5 DEF Checks
      <4>6. CASE WritesNext(t)
        BY <2>5, <3>2, <4>6, StartedOnce
      <4> QED
        BY <1>3, <4>2, <4>3, <4>4, <4>5, <4>6 DEF SenderKind
    <3> QED
      BY <3>1, <3>2
  <2> QED
    BY <2>4, <2>5
<1>4. CASE AsideKind
  <2>1. \A p \in Unfinished' : p \in Unfinished
    BY <1>4, UnfinishedAside
  <2>2. \A u \in Senders : WillStart(u)' <=> WillStart(u)
    BY <1>4 DEF AsideKind, WillStart
  <2>3. sender' = sender
    BY <1>4 DEF AsideKind
  <2>4. ASSUME Flushing, ~es.failed, fate'.missed = fate.missed,
               \A p \in Unfinished' : ClosesPrompt(p) => ClosesPrompt(p)'
        PROVE  /\ \A p \in Unfinished' : p \in fate'.missed \/ ClosesPrompt(p)'
               /\ \A u \in Senders : WillStart(u)' /\ sender'[u].checked => sender'[u].p \in fate'.missed
    BY <1>2, <2>1, <2>2, <2>3, <2>4
  <2>5. CASE Apart
    <3>1. closer' = closer
      BY <2>5 DEF Apart, Flushing
    <3> QED
      BY <2>4, <2>5, <3>1 DEF Apart, Flushing, ClosesPrompt
  <2>6. CASE BlockClosed
    BY <2>6 DEF BlockClosed, Flushing
  <2>7. CASE SessionClosed
    <3>1. Flushing /\ ~es.failed /\ fate' = fate /\ \A p : ~ClosesPrompt(p)
      BY <2>7 DEF SessionClosed, Flushing, ClosesPrompt
    <3> QED
      BY <2>4, <3>1
  <2>8. CASE HungUp
    <3>1. Flushing /\ ~es.failed /\ fate' = fate /\ \A p : ~ClosesPrompt(p)
      BY <1>1, <2>8 DEF HungUp, Flushing, ClosesPrompt, EventStream
    <3> QED
      BY <2>4, <3>1
  <2>9. CASE HasReset
    <3>1. closer' = closer /\ es' = es /\ fate'.missed = fate.missed
      BY <1>1, <2>9 DEF HasReset, Fate
    <3> QED
      BY <2>4, <3>1 DEF Flushing, ClosesPrompt
  <2>10. CASE CloserWrites
    <3> DEFINE e == Head(closer.todo)
    <3>1. es' = Told(e) /\ fate' = fate /\ closer.todo # <<>> /\ closer'.pc = closer.pc
      BY <1>1, <2>10 DEF CloserWrites, EventStream
    <3>2. e \in Event /\ (closer.pc = "session" => e.ev = "prompt_end")
      BY <3>1, Closes
    <3>3. Flushing /\ ~es.failed
      <4>1. Told(e).failed = es.failed
        BY <3>2, ToldFacts
      <4> QED
        BY <3>1, <4>1 DEF Flushing
    <3>4. ASSUME NEW p \in Unfinished', ClosesPrompt(p) PROVE FALSE
      <4>1. p \in Names /\ es.ends[p] \in Nat
        BY <1>1, <2>1, <3>4, StreamFacts DEF EventStream
      <4>2. e.ev = "prompt_end" /\ e.p = p
        BY <3>2, <3>4 DEF ClosesPrompt
      <4>3. es'.ends[p] = es.ends[p] + 1
        BY <3>1, <3>2, <4>1, <4>2, ToldFacts
      <4>4. es'.ends[p] = 0
        BY <3>4 DEF Unfinished
      <4> QED
        BY <4>1, <4>3, <4>4
    <3> QED
      BY <2>4, <3>1, <3>3, <3>4
  <2>11. CASE PromptClosed
    <3>1. ~Flushing /\ es' = es
      BY <2>11 DEF PromptClosed, Flushing
    <3>2. ASSUME NEW p \in Unfinished' PROVE p \in fate'.missed \/ ClosesPrompt(p)'
      <4>1. p \in Unfinished /\ p # None
        BY <2>1, <3>2, StreamFacts
      <4>2. CASE \E u \in Senders : Opening(u, p)
        BY <2>11, <4>2 DEF PromptClosed, Opening
      <4>3. CASE p = prompt.id /\ prompt.eot
        <5>1. PICK u \in Senders : EndsPrompt(u, p)
          BY <4>1, <4>3 DEF Ended
        <5> QED
          BY <2>11, <5>1 DEF PromptClosed, EndsPrompt
      <4>4. CASE p = prompt.id /\ ~prompt.eot
        <5>1. PromptLeft
          BY <4>1, <4>4 DEF PromptLeft
        <5> QED
          BY <2>11, <4>4, <5>1 DEF PromptClosed, ClosesPrompt
      <4> QED
        BY <3>1, <4>1, <4>2, <4>3, <4>4 DEF Known
    <3>3. ASSUME NEW u \in Senders, WillStart(u)' PROVE sender'[u].p \in fate'.missed
      <4>1. sender[u].pc = "open"
        BY <2>2, <3>3 DEF WillStart
      <4> QED
        BY <2>3, <2>11, <4>1 DEF PromptClosed
    <3> QED
      BY <3>2, <3>3
  <2> QED
    BY <1>4, <2>5, <2>6, <2>7, <2>8, <2>9, <2>10, <2>11 DEF AsideKind
<1> QED
  BY <1>3, <1>4, StepKinds

LEMMA UnfinishedFinite ==
  ASSUME TypeInv
  PROVE  IsFiniteSet(Unfinished)
<1>1. IsFiniteSet(Names)
  BY Bounds, FS_Interval
<1> QED
  BY <1>1, StreamFacts, FS_Subset

LEMMA StepOnePrompt ==
  ASSUME TypeInv, NoneBefore, OnePrompt, [Next]_vars
  PROVE  OnePrompt'
<1>1. IsFiniteSet(Unfinished) /\ Cardinality(Unfinished) \in Nat /\ Cardinality(Unfinished) <= 1
  BY UnfinishedFinite, FS_CardinalityType DEF OnePrompt
<1>2. ASSUME Unfinished' \subseteq Unfinished PROVE OnePrompt'
  <2>1. Unfinished' \in SUBSET Unfinished
    BY <1>2
  <2>2. Cardinality(Unfinished') <= Cardinality(Unfinished) /\ IsFiniteSet(Unfinished')
    BY <1>1, <2>1, FS_Subset
  <2>3. Cardinality(Unfinished') \in Nat
    BY <2>2, FS_CardinalityType
  <2> QED
    BY <1>1, <2>2, <2>3 DEF OnePrompt
<1>3. ASSUME NEW t \in Senders, Starts(t), Unfinished' \subseteq Unfinished \cup {sender[t].p} PROVE OnePrompt'
  <2>1. Unfinished = {}
    BY <1>3 DEF Starts, NoneBefore
  <2>2. Unfinished' \in SUBSET {sender[t].p}
    BY <1>3, <2>1
  <2>3. IsFiniteSet({sender[t].p}) /\ Cardinality({sender[t].p}) = 1
    BY FS_Singleton
  <2>4. Cardinality(Unfinished') <= 1
    BY <2>2, <2>3, FS_Subset
  <2> QED
    BY <2>4 DEF OnePrompt
<1> QED
  BY <1>2, <1>3, StepKinds, UnfinishedSender, UnfinishedAside

LEMMA InitOneInv == Init => OneInv
<1> SUFFICES ASSUME Init PROVE OneInv
  OBVIOUS
<1>1. es.started = {} /\ closer.pc = "idle"
  BY DEF Init
<1>2. Unfinished = {}
  BY <1>1 DEF Unfinished
<1>3. NoneBefore /\ Known /\ Ended /\ Flushed
  BY <1>1, <1>2 DEF NoneBefore, Known, Ended, Flushed, Flushing
<1>4. OnePrompt
  BY <1>2, FS_EmptySet DEF OnePrompt
<1> QED
  BY <1>3, <1>4, InitOnceInv DEF OneInv

LEMMA StepOneInv == OneInv /\ [Next]_vars => OneInv'
<1> SUFFICES ASSUME OneInv, [Next]_vars PROVE OneInv'
  OBVIOUS
<1>1. TypeInv /\ OnceInv /\ NoneBefore /\ Known /\ Ended /\ Flushed /\ OnePrompt
  BY DEF OneInv, OnceInv
<1> QED
  BY <1>1, StepOnceInv, StepNoneBefore, StepKnown, StepEnded, StepFlushed, StepOnePrompt DEF OneInv

\* SonicSession.Bracketed: one prompt at a time, nothing ended twice, and every prompt
\* that Close could know of ended (sonic.go ensurePromptOpen, sendEOT, sendAbort, Close),
\* for any number of goroutines that send.
THEOREM BracketedAlways == Spec => []Bracketed
<1>1. OneInv => Bracketed
  <2> SUFFICES ASSUME OneInv PROVE Bracketed
    OBVIOUS
  <2>1. TypeInv /\ OnceInv /\ Flushed /\ OnePrompt
    BY DEF OneInv, OnceInv
  <2>2. EndedOnce
    BY <2>1 DEF OnceInv, PromptOnce, BlockOnce, SystemOnce, SessionOnce, EndedOnce
  <2>3. FlushedOnClose
    BY <2>1 DEF Flushed, Flushing, ClosesPrompt, FlushedOnClose
  <2> QED
    BY <2>1, <2>2, <2>3 DEF TypeInv, Bracketed
<1> QED
  BY <1>1, InitOneInv, StepOneInv, PTL DEF Spec
====
