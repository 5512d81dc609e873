-------------------------- MODULE ChatServiceProofs ---------------------------
(***************************************************************************)
(* Proofs about the messages of a chat, for any number of requests, any    *)
(* window and any bound: of the two repositories, then of the service that *)
(* uses one of them, then of the contract both keep.                       *)
(***************************************************************************)
EXTENDS ChatService, ChatRepositoryContract, FiniteSetTheorems,
        FunctionTheorems, SequenceTheorems, TLAPS

-------------------------------------------------------------------------------
(* The file.                                                                *)

(* Lines are messages, markers, torn or broken; what follows is said of any *)
(* set that has these.                                                      *)
AreLines(S) == {SoftDeleteLine, TornLine, BrokenLine} \subseteq S

LEMMA KindsOfLines ==
  ASSUME NEW M, NEW line \in Line(M)
  PROVE  /\ line.kind \in {"message", "soft_delete", "torn", "broken"}
         /\ line.kind = "message" => line.message \in M
BY DEF Line, SoftDeleteLine, TornLine, BrokenLine

LEMMA LinesAre == \A M : AreLines(Line(M)) /\ \A m \in M : MessageLine(m) \in Line(M)
BY DEF AreLines, Line, MessageLine

(* What is appended ends up on a line of its own, unless the last was torn. *)
Appended(lines, new, line) ==
  /\ DOMAIN new = DOMAIN lines \cup {Len(lines) + 1}
  /\ \A i \in DOMAIN lines : new[i] = lines[i] /\ i < Len(lines) + 1
  /\ new[Len(lines) + 1] = line

Swallowed(lines, new) ==
  /\ DOMAIN new = DOMAIN lines
  /\ Len(lines) \in DOMAIN lines /\ lines[Len(lines)].kind = "torn"
  /\ new[Len(lines)].kind = "broken"
  /\ \A i \in DOMAIN lines \ {Len(lines)} : new[i] = lines[i]

LEMMA AppendedLine ==
  ASSUME NEW S, AreLines(S), NEW lines \in Seq(S), NEW line \in S
  PROVE  LET new == JsonAppendLine(lines, line)
         IN  /\ new \in Seq(S)
             /\ IF Torn(lines) THEN Swallowed(lines, new) ELSE Appended(lines, new, line)
<1>1. BrokenLine \in S /\ BrokenLine.kind = "broken"
  BY DEF AreLines, BrokenLine
<1>2. Len(lines) \in Nat /\ DOMAIN lines = 1 .. Len(lines)
  BY LenProperties
<1>3. CASE Torn(lines)
  <2>1. Len(lines) \in DOMAIN lines /\ lines[Len(lines)].kind = "torn"
    BY <1>2, <1>3, EmptySeq DEF Torn
  <2>2. JsonAppendLine(lines, line) = [lines EXCEPT ![Len(lines)] = BrokenLine]
    BY <1>3 DEF JsonAppendLine
  <2> QED
    BY <1>1, <1>2, <1>3, <2>1, <2>2, ExceptSeq DEF Swallowed
<1>4. CASE ~ Torn(lines)
  <2>1. JsonAppendLine(lines, line) = Append(lines, line)
    BY <1>4 DEF JsonAppendLine
  <2>2. Append(lines, line) \in Seq(S) /\ Len(Append(lines, line)) = Len(lines) + 1
    BY AppendProperties
  <2>3. DOMAIN Append(lines, line) = 1 .. Len(lines) + 1
    BY <2>2, LenProperties
  <2>4. 1 .. Len(lines) + 1 = (1 .. Len(lines)) \cup {Len(lines) + 1}
    BY <1>2
  <2>5. /\ \A i \in 1 .. Len(lines) : Append(lines, line)[i] = lines[i] /\ i < Len(lines) + 1
        /\ Append(lines, line)[Len(lines) + 1] = line
    BY <1>2, AppendProperties
  <2> QED
    BY <1>2, <1>4, <2>1, <2>2, <2>3, <2>4, <2>5 DEF Appended
<1> QED
  BY <1>3, <1>4

(* A file that gained no message and no marker lists what it did.           *)
LinesStay(lines, new) ==
  /\ MessageLines(new) = MessageLines(lines)
  /\ \A i \in MessageLines(lines) : new[i].message = lines[i].message

LEMMA SameList ==
  ASSUME NEW lines, NEW new, LinesStay(lines, new)
  PROVE  /\ JsonListed(new) = JsonListed(lines)
         /\ \A m, n : JsonPrecedes(new, m, n) <=> JsonPrecedes(lines, m, n)
BY DEF LinesStay, JsonListed, JsonPrecedes

(* A line that is appended to a torn one is lost with it.                   *)
LEMMA SwallowedIsLost ==
  ASSUME NEW lines, NEW new, Swallowed(lines, new)
  PROVE  LinesStay(lines, new) /\ LineLost(new)
<1>1. \A i \in DOMAIN lines :
        /\ new[i].kind = "soft_delete" <=> lines[i].kind = "soft_delete"
        /\ new[i].kind = "message" <=> lines[i].kind = "message"
        /\ new[i].kind = "message" => new[i] = lines[i]
  BY DEF Swallowed
<1>2. Effective(new) = Effective(lines)
  BY <1>1 DEF Effective, Swallowed
<1>3. MessageLines(new) = MessageLines(lines)
  BY <1>1, <1>2 DEF MessageLines, Effective
<1>4. \A i \in MessageLines(lines) : new[i].message = lines[i].message
  BY <1>1 DEF MessageLines, Effective
<1> QED
  BY <1>3, <1>4 DEF LinesStay, LineLost, Swallowed

(* A line that was cut short adds nothing to the list.                      *)
LEMMA TornAddsNothing ==
  ASSUME NEW lines, NEW new, Appended(lines, new, TornLine)
  PROVE  LinesStay(lines, new) /\ (LineLost(new) <=> LineLost(lines))
<1>1. /\ DOMAIN new = DOMAIN lines \cup {Len(lines) + 1}
      /\ \A i \in DOMAIN lines : new[i] = lines[i] /\ i < Len(lines) + 1
      /\ new[Len(lines) + 1].kind = "torn"
  BY DEF Appended, TornLine
<1>2. Effective(new) \ {Len(lines) + 1} = Effective(lines) \ {Len(lines) + 1}
  BY <1>1 DEF Effective
<1>3. MessageLines(new) \ {Len(lines) + 1} = MessageLines(lines) \ {Len(lines) + 1}
  BY <1>1, <1>2 DEF MessageLines, Effective
<1>4. Len(lines) + 1 \notin MessageLines(new) /\ Len(lines) + 1 \notin MessageLines(lines)
  BY <1>1 DEF MessageLines, Effective
<1>5. \A i \in MessageLines(lines) : new[i].message = lines[i].message
  BY <1>1 DEF MessageLines, Effective
<1> QED
  BY <1>1, <1>3, <1>4, <1>5 DEF LinesStay, LineLost

LEMMA TearAdds ==
  ASSUME NEW S, AreLines(S), NEW lines \in Seq(S)
  PROVE  /\ JsonTear(lines) \in Seq(S) /\ LinesStay(lines, JsonTear(lines))
         /\ LineLost(JsonTear(lines)) <=> LineLost(lines)
<1>1. CASE Torn(lines)
  BY <1>1 DEF JsonTear, LinesStay
<1>2. CASE ~ Torn(lines)
  <2>1. TornLine \in S
    BY DEF AreLines
  <2>2. JsonTear(lines) = JsonAppendLine(lines, TornLine)
    BY <1>2 DEF JsonTear, JsonAppendLine
  <2> QED
    BY <1>2, <2>1, <2>2, AppendedLine, TornAddsNothing
<1> QED
  BY <1>1, <1>2

(* A message is listed last, in a line of its own.                          *)
ListedLast(lines, new, m) ==
  /\ MessageLines(new) = MessageLines(lines) \cup {Len(lines) + 1}
  /\ \A i \in MessageLines(lines) : new[i] = lines[i] /\ i < Len(lines) + 1
  /\ new[Len(lines) + 1].message = m
  /\ Len(lines) + 1 \notin MessageLines(lines)
  /\ LineLost(new) <=> LineLost(lines)

LEMMA MessageLineAdds ==
  ASSUME NEW lines, NEW new, NEW m, Len(lines) \in Nat, DOMAIN lines = 1 .. Len(lines),
         Appended(lines, new, MessageLine(m))
  PROVE  ListedLast(lines, new, m)
<1> DEFINE last == Len(lines) + 1
<1>1. /\ DOMAIN new = DOMAIN lines \cup {last}
      /\ \A i \in DOMAIN lines : new[i] = lines[i] /\ i < last
      /\ new[last].kind = "message" /\ new[last].message = m
  BY DEF Appended, MessageLine
<1>2. last \notin DOMAIN lines
  OBVIOUS
<1>3. Effective(new) = Effective(lines) \cup {last}
  BY <1>1, <1>2 DEF Effective
<1>4. MessageLines(new) = MessageLines(lines) \cup {last}
  BY <1>1, <1>2, <1>3 DEF MessageLines, Effective
<1>5. \A i \in MessageLines(lines) : i \in DOMAIN lines
  BY DEF MessageLines, Effective
<1>6. LineLost(new) <=> LineLost(lines)
  BY <1>1, <1>2 DEF LineLost
<1> QED
  BY <1>1, <1>2, <1>4, <1>5, <1>6 DEF ListedLast

(* A marker of its own line clears the list.                                *)
LEMMA MarkerClears ==
  ASSUME NEW lines, NEW new, Len(lines) \in Nat, DOMAIN lines = 1 .. Len(lines),
         Appended(lines, new, SoftDeleteLine)
  PROVE  MessageLines(new) = {} /\ (LineLost(lines) => LineLost(new))
<1> DEFINE last == Len(lines) + 1
<1>1. /\ DOMAIN new = DOMAIN lines \cup {last}
      /\ \A i \in DOMAIN lines : new[i] = lines[i] /\ i < last
      /\ new[last].kind = "soft_delete"
  BY DEF Appended, SoftDeleteLine
<1>2. Effective(new) = {}
  <2>1. \A i \in DOMAIN new : ~ (last < i)
    BY <1>1
  <2> QED
    BY <1>1, <2>1 DEF Effective
<1> QED
  BY <1>1, <1>2 DEF MessageLines, LineLost

-------------------------------------------------------------------------------
(* The store, be it a file or rows.                                         *)

(* The messages and their order are what they were.                         *)
ViewStays ==
  /\ Listed' = Listed /\ (NoLineLost' <=> NoLineLost)
  /\ \A m, n : Precedes(m, n)' <=> Precedes(m, n)
  /\ LinesOnce => LinesOnce'

LEMMA StoreStays ==
  ASSUME UNCHANGED <<backend, store>>
  PROVE  ViewStays /\ (StoreOK => StoreOK')
<1>1. Listed' = Listed /\ (NoLineLost' <=> NoLineLost)
  BY DEF Listed, NoLineLost
<1>2. \A m, n : Precedes(m, n)' <=> Precedes(m, n)
  BY DEF Precedes
<1> QED
  BY <1>1, <1>2 DEF ViewStays, LinesOnce, StoreOK

LEMMA StoreTears ==
  ASSUME StoreOK, backend = "json", backend' = backend, store' = JsonTear(store)
  PROVE  ViewStays /\ StoreOK'
<1>1. store \in Seq(Line(Message))
  BY DEF StoreOK
<1>2. /\ store' \in Seq(Line(Message)) /\ LinesStay(store, store')
      /\ LineLost(store') <=> LineLost(store)
  BY <1>1, LinesAre, TearAdds
<1>3. Listed' = Listed /\ \A m, n : Precedes(m, n)' <=> Precedes(m, n)
  BY <1>2, SameList DEF Listed, Precedes
<1>4. NoLineLost' <=> NoLineLost
  BY <1>2 DEF NoLineLost
<1>5. LinesOnce => LinesOnce'
  BY <1>2 DEF LinesOnce, LinesStay
<1> QED
  BY <1>2, <1>3, <1>4, <1>5 DEF ViewStays, StoreOK

(* A message is listed when it was appended, if its line is not lost.       *)
LEMMA StoreAppends ==
  ASSUME StoreOK, LinesOnce, NEW m \in Message, m \notin Listed,
         backend' = backend, store' = Kept(m)
  PROVE  /\ StoreOK' /\ LinesOnce'
         /\ Listed \subseteq Listed' /\ Listed' \subseteq Listed \cup {m}
         /\ NoLineLost' => NoLineLost /\ m \in Listed'
         /\ \A a, b : Precedes(a, b) => Precedes(a, b)'
         /\ backend = "json" =>
              /\ \A a, b : Precedes(a, b)' => Precedes(a, b) \/ b = m
              /\ NoLineLost' => \A a \in Listed : Precedes(a, m)'
<1>1. CASE backend = "json" /\ Torn(store)
  <2>1. store \in Seq(Line(Message)) /\ MessageLine(m) \in Line(Message)
    BY <1>1, LinesAre DEF StoreOK
  <2>2. store' = JsonAppendLine(store, MessageLine(m))
    BY <1>1 DEF Kept, JsonAppendMessage
  <2>4. store' \in Seq(Line(Message)) /\ Swallowed(store, store')
    BY <1>1, <2>1, <2>2, LinesAre, AppendedLine
  <2>3. LinesStay(store, store') /\ LineLost(store')
    BY <2>4, SwallowedIsLost
  <2>5. Listed' = Listed /\ \A a, b : Precedes(a, b)' <=> Precedes(a, b)
    BY <1>1, <2>3, SameList DEF Listed, Precedes
  <2>6. ~ NoLineLost'
    BY <1>1, <2>3 DEF NoLineLost
  <2>7. LinesOnce'
    BY <2>3 DEF LinesOnce, LinesStay
  <2> QED
    BY <1>1, <2>4, <2>5, <2>6, <2>7 DEF StoreOK
<1>2. CASE backend = "json" /\ ~ Torn(store)
  <2> DEFINE last == Len(store) + 1
  <2>1. store \in Seq(Line(Message)) /\ MessageLine(m) \in Line(Message)
    BY <1>2, LinesAre DEF StoreOK
  <2>2. store' = JsonAppendMessage(store, m)
    BY <1>2 DEF Kept
  <2>3. store' \in Seq(Line(Message)) /\ Appended(store, store', MessageLine(m))
    BY <1>2, <2>1, <2>2, LinesAre, AppendedLine DEF JsonAppendMessage
  <2>4. /\ MessageLines(store') = MessageLines(store) \cup {last}
        /\ \A i \in MessageLines(store) : store'[i] = store[i] /\ i < last
        /\ store'[last].message = m /\ last \notin MessageLines(store)
        /\ LineLost(store') <=> LineLost(store)
    BY <2>1, <2>3, LenProperties, MessageLineAdds DEF ListedLast
  <2> HIDE DEF last
  <2>5. JsonListed(store') = JsonListed(store) \cup {m}
    BY <2>4 DEF JsonListed
  <2>6. Listed' = Listed \cup {m}
    BY <1>2, <2>5 DEF Listed
  <2>7. NoLineLost' <=> NoLineLost
    BY <2>4 DEF NoLineLost
  <2>8. \A a, b : JsonPrecedes(store, a, b) => JsonPrecedes(store', a, b)
    BY <2>4 DEF JsonPrecedes
  <2>9. ASSUME NEW a, NEW b, JsonPrecedes(store', a, b)
        PROVE  JsonPrecedes(store, a, b) \/ b = m
    <3>1. PICK i, j \in MessageLines(store') :
            i < j /\ store'[i].message = a /\ store'[j].message = b
      BY <2>9 DEF JsonPrecedes
    <3>2. CASE j = last
      BY <2>4, <3>1, <3>2
    <3>3. CASE j # last /\ i = last
      <4>1. j < last /\ last < j
        BY <2>4, <3>1, <3>3
      <4>2. last \in Nat /\ j \in Nat
        BY <2>1, <2>3, <2>4, LenProperties DEF last, MessageLines, Effective
      <4> QED
        BY <4>1, <4>2
    <3>4. CASE j # last /\ i # last
      BY <2>4, <3>1, <3>4 DEF JsonPrecedes
    <3> QED
      BY <3>2, <3>3, <3>4
  <2>10. ASSUME NEW a \in JsonListed(store)
         PROVE  JsonPrecedes(store', a, m)
    BY <2>4 DEF JsonListed, JsonPrecedes
  <2>11. LinesOnce'
    <3> SUFFICES ASSUME NEW i \in MessageLines(store'), NEW j \in MessageLines(store'),
                        store'[i].message = store'[j].message
                 PROVE  i = j
      BY DEF LinesOnce
    <3>1. \A k \in MessageLines(store) : store[k].message # m
      BY <1>2 DEF Listed, JsonListed
    <3> QED
      BY <1>2, <2>4, <3>1 DEF LinesOnce
  <2>12. \A a, b : Precedes(a, b) => Precedes(a, b)'
    BY <1>2, <2>8 DEF Precedes
  <2>13. \A a, b : Precedes(a, b)' => Precedes(a, b) \/ b = m
    BY <1>2, <2>9 DEF Precedes
  <2>14. \A a \in Listed : Precedes(a, m)'
    BY <1>2, <2>10 DEF Precedes, Listed
  <2> QED
    BY <1>2, <2>3, <2>6, <2>7, <2>11, <2>12, <2>13, <2>14 DEF StoreOK
<1>3. CASE backend # "json"
  <2>1. store \subseteq Row /\ IsFiniteSet(store)
    BY <1>3 DEF StoreOK
  <2> DEFINE row == [message |-> m, deleted |-> FALSE]
  <2>2. row \in Row /\ ~ row.deleted /\ row.message = m
    BY DEF Row
  <2>6. store' = store \cup {row}
    BY <1>3 DEF Kept, PgAppendMessage
  <2> HIDE DEF row
  <2>7. IsFiniteSet(store')
    BY <2>1, <2>6, FS_AddElement
  <2>3. store' \subseteq Row /\ IsFiniteSet(store')
    BY <2>1, <2>2, <2>6, <2>7
  <2>4. Listed' = Listed \cup {m}
    <3>1. PgListed(store') = PgListed(store) \cup {m}
      BY <2>2, <2>6 DEF PgListed
    <3> QED
      BY <1>3, <3>1 DEF Listed
  <2>5. \A a, b : Precedes(a, b)' <=> Precedes(a, b)
    BY <1>3 DEF Precedes
  <2> QED
    BY <1>3, <2>3, <2>4, <2>5 DEF StoreOK, LinesOnce, NoLineLost
<1> QED
  BY <1>1, <1>2, <1>3

(* After a clear nothing is listed, if its line is not lost.                *)
LEMMA StoreClears ==
  ASSUME StoreOK, LinesOnce, backend' = backend,
         store' = IF backend = "json" THEN JsonSoftDelete(store) ELSE PgSoftDelete(store)
  PROVE  /\ StoreOK' /\ LinesOnce' /\ Listed' \subseteq Listed
         /\ NoLineLost' => NoLineLost /\ Listed' = {}
<1>1. CASE backend = "json" /\ Torn(store)
  <2>1. store \in Seq(Line(Message)) /\ SoftDeleteLine \in Line(Message)
    BY <1>1, LinesAre DEF StoreOK, AreLines
  <2>2. store' = JsonAppendLine(store, SoftDeleteLine)
    BY <1>1 DEF JsonSoftDelete
  <2>4. store' \in Seq(Line(Message)) /\ Swallowed(store, store')
    BY <1>1, <2>1, <2>2, LinesAre, AppendedLine
  <2>3. LinesStay(store, store') /\ LineLost(store')
    BY <2>4, SwallowedIsLost
  <2>5. Listed' = Listed
    BY <1>1, <2>3, SameList DEF Listed
  <2>6. ~ NoLineLost'
    BY <1>1, <2>3 DEF NoLineLost
  <2>7. LinesOnce'
    BY <2>3 DEF LinesOnce, LinesStay
  <2> QED
    BY <1>1, <2>4, <2>5, <2>6, <2>7 DEF StoreOK
<1>2. CASE backend = "json" /\ ~ Torn(store)
  <2>1. store \in Seq(Line(Message)) /\ SoftDeleteLine \in Line(Message) /\ store' = JsonSoftDelete(store)
    BY <1>2, LinesAre DEF StoreOK, AreLines
  <2>2. store' \in Seq(Line(Message)) /\ Appended(store, store', SoftDeleteLine)
    BY <1>2, <2>1, LinesAre, AppendedLine DEF JsonSoftDelete
  <2>3. /\ MessageLines(store') = {}
        /\ LineLost(store) => LineLost(store')
    BY <2>1, <2>2, LenProperties, MarkerClears
  <2>4. Listed' = {} /\ LinesOnce'
    BY <1>2, <2>3 DEF Listed, JsonListed, LinesOnce
  <2>5. NoLineLost' => NoLineLost
    BY <2>3 DEF NoLineLost
  <2> QED
    BY <1>2, <2>2, <2>4, <2>5 DEF StoreOK
<1>3. CASE backend # "json"
  <2>1. store \subseteq Row /\ IsFiniteSet(store)
    BY <1>3 DEF StoreOK
  <2>2. store' = {[row EXCEPT !.deleted = TRUE] : row \in store}
    BY <1>3 DEF PgSoftDelete
  <2>3. store' \subseteq Row /\ \A row \in store' : row.deleted
    BY <2>1, <2>2 DEF Row
  <2>4. IsFiniteSet(store')
    <3> DEFINE f == [row \in store |-> [row EXCEPT !.deleted = TRUE]]
    <3>1. f \in Surjection(store, store')
      BY <2>2, Fun_IsSurj
    <3> QED
      BY <2>1, <3>1, FS_Surjection
  <2>5. Listed' = {}
    BY <1>3, <2>3 DEF Listed, PgListed
  <2> QED
    BY <1>3, <2>3, <2>4, <2>5 DEF StoreOK, LinesOnce, NoLineLost
<1> QED
  BY <1>1, <1>2, <1>3

(* What is listed are finitely many messages.                               *)
LEMMA ListedAreMessages ==
  ASSUME StoreOK
  PROVE  Listed \subseteq Message /\ IsFiniteSet(Listed)
<1>1. CASE backend = "json"
  <2>1. store \in Seq(Line(Message)) /\ DOMAIN store = 1 .. Len(store) /\ Len(store) \in Nat
    BY <1>1, LenProperties DEF StoreOK
  <2>2. \A i \in DOMAIN store : store[i] \in Line(Message)
    BY <2>1, ElementOfSeq
  <2>3. \A i \in MessageLines(store) : store[i].message \in Message
    BY <2>2, KindsOfLines DEF MessageLines, Effective
  <2>4. MessageLines(store) \in SUBSET (1 .. Len(store))
    BY <2>1 DEF MessageLines, Effective
  <2>5. IsFiniteSet(1 .. Len(store))
    BY <2>1, FS_Interval
  <2>8. IsFiniteSet(MessageLines(store))
    BY <2>4, <2>5, FS_Subset
  <2> DEFINE f == [i \in MessageLines(store) |-> store[i].message]
  <2>6. f \in Surjection(MessageLines(store), JsonListed(store))
    BY Fun_IsSurj DEF JsonListed
  <2>7. IsFiniteSet(JsonListed(store))
    BY <2>8, <2>6, FS_Surjection
  <2> QED
    BY <1>1, <2>3, <2>7 DEF Listed, JsonListed
<1>2. CASE backend # "json"
  <2>1. store \subseteq Row /\ IsFiniteSet(store)
    BY <1>2 DEF StoreOK
  <2> DEFINE live == {x \in store : ~ x.deleted}
             f == [x \in live |-> x.message]
  <2>2. live \in SUBSET store
    OBVIOUS
  <2>3. IsFiniteSet(live)
    BY <2>1, <2>2, FS_Subset
  <2>4. f \in Surjection(live, PgListed(store))
    BY Fun_IsSurj DEF PgListed
  <2>5. IsFiniteSet(PgListed(store))
    BY <2>3, <2>4, FS_Surjection
  <2>6. PgListed(store) \subseteq Message
    BY <2>1 DEF PgListed, Row
  <2> QED
    BY <1>2, <2>5, <2>6 DEF Listed
<1> QED
  BY <1>1, <1>2

-------------------------------------------------------------------------------
(* The requests.                                                            *)

(* The steps of one request; the others stay where they are.                *)
RequestStep(r) ==
  Block(r) \/ Accept(r) \/ Step(r) \/ StoreFails(r) \/ Disconnect(r)

(* A request stores its question or its answer.                             *)
Saves(r, m) ==
  /\ store' = Kept(m) /\ backend' = backend /\ cleared' = cleared
  /\ \/ req[r].phase = "asking" /\ m = req[r].question
     \/ req[r].phase = "saving" /\ m = req[r].answer
  /\ \E phase \in {"asked", "announcing", "gone"} :
       /\ phase = "asked" => req[r].phase = "asking"
       /\ phase = "announcing" => req[r].phase = "saving"
       /\ req' = [req EXCEPT ![r].phase = phase]

(* A message that is constructed.                                           *)
LEMMA ConstructedMessage ==
  ASSUME TypeOK, NEW r \in Requests, NEW role \in {"user", "assistant"}
  PROVE  LET m == ChatMessage(r, role)
         IN  /\ m \in Message /\ m # NoMessage
             /\ m.at = clock + 1 /\ m.by = r /\ m.role = role
             /\ m.tokens = req[r].buffer
<1>1. clock + 1 \in Nat \ {0} /\ req[r].buffer \in 0 .. MaxTokens
  BY DEF TypeOK, Request
<1> QED
  BY <1>1, NoMessageIsNone DEF ChatMessage, Message

(* What a step may change of a request, and when.                           *)
LEMMA OneRequestMoves ==
  ASSUME TypeOK, NEW r \in Requests, RequestStep(r)
  PROVE  /\ req' \in [Requests -> Request] /\ clock' \in Nat
         /\ \A s \in Requests \ {r} : req'[s] = req[s]
         /\ req[r].phase # "new" => req'[r].question = req[r].question
         /\ req[r].phase # "streaming" =>
              req'[r].answer = req[r].answer /\ req'[r].buffer = req[r].buffer
         /\ req[r].phase # "announcing" => req'[r].announced = req[r].announced
         /\ req[r].phase # "asked" => req'[r].context = req[r].context
         /\ req'[r].phase = "asking" => req[r].phase = "new"
         /\ req'[r].phase = "saving" => req[r].phase = "streaming"
<1>1. /\ req \in [Requests -> Request] /\ clock \in Nat
      /\ MaxTokens \in Nat
  BY ChatConstants DEF TypeOK
<1>2. CASE Accept(r)
  <2> DEFINE m == ChatMessage(r, "user")
  <2>1. m \in Message /\ clock + 1 \in Nat
    BY <1>1, ConstructedMessage
  <2> HIDE DEF m
  <2>2. req' = [req EXCEPT ![r].phase = "asking", ![r].question = m]
    BY <1>2 DEF Accept, m
  <2>3. req[r].phase = "new" /\ clock' = clock + 1
    BY <1>2 DEF Accept
  <2>4. req'[r] \in Request
    BY <1>1, <2>1, <2>2 DEF Request
  <2>5. req' \in [Requests -> Request] /\ \A s \in Requests \ {r} : req'[s] = req[s]
    BY <1>1, <2>2, <2>4
  <2> QED
    BY <1>1, <2>1, <2>2, <2>3, <2>5 DEF Request
<1>3. CASE LoadHistory(r)
  <2>1. List(context_window) \in SUBSET Message
    BY ListedAreMessages DEF TypeOK, List, JsonList, PgList, LastOf, Listed
  <2> QED
    BY <1>1, <1>3, <2>1 DEF LoadHistory, Request
<1>4. ASSUME NEW broken \in BOOLEAN, StreamStops(r, broken)
      PROVE  /\ req' \in [Requests -> Request] /\ clock' \in Nat
             /\ \A s \in Requests \ {r} : req'[s] = req[s]
             /\ req'[r].question = req[r].question
             /\ req'[r].announced = req[r].announced
             /\ req'[r].context = req[r].context
             /\ req[r].phase = "streaming"
             /\ req'[r].phase # "asking"
  BY <1>1, <1>4, ConstructedMessage DEF StreamStops, Request
<1>5. CASE StreamToken(r)
  BY <1>1, <1>5 DEF StreamToken, Request
<1>6. CASE Block(r) \/ SaveQuestion(r) \/ HistoryFails(r) \/ OpenStream(r) \/ SaveAnswer(r)
  BY <1>1, <1>6 DEF Block, SaveQuestion, HistoryFails, OpenStream, SaveAnswer, Request
<1>7. CASE Announce(r) \/ StoreFails(r) \/ Disconnect(r)
  BY <1>1, <1>7 DEF Announce, StoreFails, Disconnect, Request
<1> QED
  BY <1>2, <1>3, <1>4, <1>5, <1>6, <1>7 DEF RequestStep, Step

(* The steps of a request that store something, and the others.             *)
LEMMA RequestStores ==
  ASSUME TypeOK, NEW r \in Requests, RequestStep(r)
  PROVE  /\ backend' = backend /\ cleared' = cleared /\ clears' = clears
         /\ \/ store' = store
            \/ backend = "json" /\ store' = JsonTear(store)
            \/ \E m \in {req[r].question, req[r].answer} : Saves(r, m)
         /\ req[r].phase = "asking" /\ req'[r].phase = "asked" =>
              Saves(r, req[r].question)
         /\ req[r].phase = "saving" /\ req'[r].phase = "announcing" =>
              Saves(r, req[r].answer)
<1>1. req \in [Requests -> Request]
  BY DEF TypeOK
<1>2. CASE SaveQuestion(r) \/ SaveAnswer(r)
  BY <1>1, <1>2 DEF SaveQuestion, SaveAnswer, Saves, Request
<1>3. CASE Disconnect(r)
  BY <1>1, <1>3 DEF Disconnect, Saves, Request
<1>4. CASE StoreFails(r)
  BY <1>1, <1>4 DEF StoreFails, Request
<1>5. CASE Block(r) \/ Accept(r) \/ LoadHistory(r) \/ HistoryFails(r) \/ OpenStream(r)
  BY <1>1, <1>5 DEF Block, Accept, LoadHistory, HistoryFails, OpenStream, Request
<1>6. CASE StreamToken(r) \/ (\E broken \in BOOLEAN : StreamStops(r, broken)) \/ Announce(r)
  BY <1>1, <1>6 DEF StreamToken, StreamStops, Announce, Request
<1> QED
  BY <1>2, <1>3, <1>4, <1>5, <1>6 DEF RequestStep, Step

(* What a request knows of its messages stays so.                           *)
LEMMA RequestStaysRegular ==
  ASSUME TypeOK, Regular, TimesDiffer, NEW r \in Requests, RequestStep(r)
  PROVE  QuestionRegular(r)' /\ AnswerRegular(r)'
<1>1. /\ req \in [Requests -> Request] /\ clock \in Nat
      /\ MaxTokens \in Nat /\ NoMessage \notin Message
  BY ChatConstants, NoMessageIsNone DEF TypeOK
<1>2. QuestionRegular(r) /\ AnswerRegular(r)
  BY DEF Regular
<1>3. CASE Accept(r)
  BY <1>1, <1>2, <1>3, ConstructedMessage
     DEF Accept, Request, QuestionRegular, AnswerRegular
<1>4. ASSUME NEW broken \in BOOLEAN, StreamStops(r, broken)
      PROVE  QuestionRegular(r)' /\ AnswerRegular(r)'
  <2>1. req[r].question # NoMessage => req[r].question.at <= clock /\ req[r].question.at \in Nat
    BY <1>1 DEF TimesDiffer, Said, Request, Message
  <2>2. QuestionRegular(r)'
    BY <1>1, <1>2, <1>4 DEF StreamStops, Request, QuestionRegular
  <2> QED
    BY <1>1, <1>2, <1>4, <2>1, <2>2, ConstructedMessage
       DEF StreamStops, Request, QuestionRegular, AnswerRegular
<1>5. CASE StreamToken(r) \/ Block(r) \/ SaveQuestion(r) \/ OpenStream(r)
  BY <1>1, <1>2, <1>5 DEF Block, SaveQuestion, OpenStream, StreamToken, Request,
     QuestionRegular, AnswerRegular
<1>6. CASE LoadHistory(r) \/ HistoryFails(r) \/ SaveAnswer(r) \/ Announce(r)
  BY <1>1, <1>2, <1>6 DEF LoadHistory, HistoryFails, SaveAnswer, Announce, Request,
     QuestionRegular, AnswerRegular
<1>7. CASE StoreFails(r) \/ Disconnect(r)
  BY <1>1, <1>2, <1>7 DEF StoreFails, Disconnect, Request,
     QuestionRegular, AnswerRegular
<1> QED
  BY <1>3, <1>4, <1>5, <1>6, <1>7 DEF RequestStep, Step

(* A message that is constructed is later than all others.                  *)
LEMMA NewestIsLast ==
  ASSUME TypeOK, TimesDiffer, NEW m \in Message, m.at = clock + 1,
         clock' = clock + 1, Said' \subseteq Said \cup {m}
  PROVE  TimesDiffer'
<1>1. \A n \in Said : n \in Message
  BY DEF Said, TypeOK, Request
<1>2. \A n \in Said : n.at \in Nat /\ n.at <= clock
  BY <1>1 DEF TimesDiffer, Message
<1> QED
  BY <1>2 DEF TimesDiffer, TypeOK

LEMMA TimesStayDifferent ==
  ASSUME TypeOK, TimesDiffer, NEW r \in Requests, RequestStep(r)
  PROVE  TimesDiffer'
<1>1. req \in [Requests -> Request] /\ clock \in Nat
  BY DEF TypeOK
<1>2. \A s \in Requests \ {r} : req'[s] = req[s]
  BY OneRequestMoves
<1>3. ASSUME UNCHANGED clock, req'[r].question = req[r].question,
             req'[r].answer = req[r].answer
      PROVE  TimesDiffer'
  <2>1. Said' = Said
    BY <1>2, <1>3 DEF Said
  <2> QED
    BY <1>3, <2>1 DEF TimesDiffer
<1>4. CASE Accept(r)
  <2> DEFINE m == ChatMessage(r, "user")
  <2>1. m \in Message /\ m.at = clock + 1
    BY ConstructedMessage
  <2> HIDE DEF m
  <2>2. /\ req'[r].question = m /\ req'[r].answer = req[r].answer
        /\ clock' = clock + 1
    BY <1>1, <1>4 DEF Accept, Request, m
  <2>3. Said' \subseteq Said \cup {m}
    BY <1>2, <2>2 DEF Said
  <2> QED
    BY <2>1, <2>2, <2>3, NewestIsLast
<1>5. ASSUME NEW broken \in BOOLEAN, StreamStops(r, broken), req[r].buffer # 0
      PROVE  TimesDiffer'
  <2> DEFINE m == ChatMessage(r, "assistant")
  <2>1. m \in Message /\ m.at = clock + 1
    BY ConstructedMessage
  <2> HIDE DEF m
  <2>2. /\ req'[r].answer = m /\ req'[r].question = req[r].question
        /\ clock' = clock + 1
    BY <1>1, <1>5 DEF StreamStops, Request, m
  <2>3. Said' \subseteq Said \cup {m}
    BY <1>2, <2>2 DEF Said
  <2> QED
    BY <2>1, <2>2, <2>3, NewestIsLast
<1>6. ASSUME NEW broken \in BOOLEAN, StreamStops(r, broken), req[r].buffer = 0
      PROVE  TimesDiffer'
  BY <1>1, <1>3, <1>6 DEF StreamStops, Request
<1>7. CASE StreamToken(r) \/ Block(r) \/ SaveQuestion(r) \/ OpenStream(r)
  BY <1>1, <1>3, <1>7 DEF Block, SaveQuestion, OpenStream, StreamToken, Request
<1>8. CASE LoadHistory(r) \/ HistoryFails(r) \/ SaveAnswer(r) \/ Announce(r)
  BY <1>1, <1>3, <1>8 DEF LoadHistory, HistoryFails, SaveAnswer, Announce, Request
<1>9. CASE StoreFails(r) \/ Disconnect(r)
  BY <1>1, <1>3, <1>9 DEF StoreFails, Disconnect, Request
<1> QED
  BY <1>4, <1>5, <1>6, <1>7, <1>8, <1>9 DEF RequestStep, Step

-------------------------------------------------------------------------------
(* The messages of the requests and those of the store.                     *)

(* A request that is about to store a message has not stored it before.     *)
LEMMA SavedIsNew ==
  ASSUME ChatInv, NEW r \in Requests, NEW m, Saves(r, m)
  PROVE  /\ m \in Message /\ m \notin Listed \cup cleared
         /\ m.by = r
         /\ \/ m.role = "user" /\ m = req[r].question
            \/ m.role = "assistant" /\ m = req[r].answer
<1>1. req[r] \in Request /\ QuestionRegular(r) /\ AnswerRegular(r)
  BY DEF ChatInv, TypeOK, Regular
<1>2. CASE req[r].phase = "asking" /\ m = req[r].question
  BY <1>1, <1>2 DEF Request, QuestionRegular, ChatInv, Accounted
<1>3. CASE req[r].phase = "saving" /\ m = req[r].answer
  BY <1>1, <1>3 DEF Request, AnswerRegular, ChatInv, Accounted
<1> QED
  BY <1>2, <1>3 DEF Saves

(* Every step leaves what is listed, adds a message of a request to it, or  *)
(* clears it.                                                               *)
LEMMA StoreSteps ==
  ASSUME ChatInv, Next
  PROVE  \/ ViewStays /\ StoreOK' /\ UNCHANGED <<backend, cleared>>
         \/ \E r \in Requests, m \in Message : Saves(r, m)
         \/ ClearHistory
<1>1. TypeOK /\ StoreOK
  BY DEF ChatInv, TypeOK
<1>2. ASSUME NEW r \in Requests, RequestStep(r)
      PROVE  \/ ViewStays /\ StoreOK' /\ UNCHANGED <<backend, cleared>>
             \/ \E s \in Requests, m \in Message : Saves(s, m)
  <2>1. CASE store' = store
    BY <1>1, <1>2, <2>1, RequestStores, StoreStays
  <2>2. CASE backend = "json" /\ store' = JsonTear(store)
    BY <1>1, <1>2, <2>2, RequestStores, StoreTears
  <2>3. CASE \E m \in {req[r].question, req[r].answer} : Saves(r, m)
    BY <2>3, SavedIsNew
  <2> QED
    BY <1>1, <1>2, <2>1, <2>2, <2>3, RequestStores
<1> QED
  BY <1>2 DEF Next, RequestStep

(* What is stored stays in the list or among what was cleared from it.      *)
LEMMA StoredStays ==
  ASSUME ChatInv, Next
  PROVE  /\ StoreOK' /\ LinesOnce' /\ backend' = backend
         /\ cleared \subseteq cleared' /\ cleared' \subseteq cleared \cup Listed
         /\ \A m : Present(m) => Present(m)'
         /\ NoLineLost' => NoLineLost
<1>1. StoreOK /\ LinesOnce
  BY DEF ChatInv, TypeOK
<1>2. CASE ViewStays /\ StoreOK' /\ UNCHANGED <<backend, cleared>>
  BY <1>1, <1>2 DEF ViewStays, Present
<1>3. ASSUME NEW r \in Requests, NEW m \in Message, Saves(r, m)
      PROVE  /\ StoreOK' /\ LinesOnce' /\ backend' = backend /\ cleared' = cleared
             /\ Listed \subseteq Listed'
             /\ NoLineLost' => NoLineLost
  <2>1. m \notin Listed /\ backend' = backend /\ store' = Kept(m) /\ cleared' = cleared
    BY <1>3, SavedIsNew DEF Saves
  <2> QED
    BY <1>1, <2>1, StoreAppends
<1>4. CASE ClearHistory
  <2>1. /\ backend' = backend /\ cleared' = cleared \cup Listed
        /\ store' = IF backend = "json" THEN JsonSoftDelete(store) ELSE PgSoftDelete(store)
    BY <1>4 DEF ClearHistory
  <2> QED
    BY <1>1, <2>1, StoreClears DEF Present
<1> QED
  BY <1>2, <1>3, <1>4, StoreSteps DEF Present

(* What a step may change of the requests.                                  *)
LEMMA RequestsMove ==
  ASSUME ChatInv, Next
  PROVE  /\ req' \in [Requests -> Request] /\ clock' \in Nat
         /\ Regular' /\ TimesDiffer'
         /\ \A r \in Requests :
              /\ req[r].question # NoMessage => req'[r].question = req[r].question
              /\ req[r].answer # NoMessage => req'[r].answer = req[r].answer
              /\ req'[r].phase = "asking" => req[r].phase = "asking" \/ req[r].question = NoMessage
              /\ req'[r].phase = "saving" => req[r].phase = "saving" \/ req[r].answer = NoMessage
<1>1. TypeOK /\ Regular /\ TimesDiffer
  BY DEF ChatInv
<1>2. ASSUME NEW r \in Requests, RequestStep(r)
      PROVE  /\ req' \in [Requests -> Request] /\ clock' \in Nat
             /\ Regular' /\ TimesDiffer'
             /\ \A s \in Requests :
                  /\ req[s].question # NoMessage => req'[s].question = req[s].question
                  /\ req[s].answer # NoMessage => req'[s].answer = req[s].answer
                  /\ req'[s].phase = "asking" => req[s].phase = "asking" \/ req[s].question = NoMessage
                  /\ req'[s].phase = "saving" => req[s].phase = "saving" \/ req[s].answer = NoMessage
  <2>1. QuestionRegular(r)' /\ AnswerRegular(r)' /\ TimesDiffer'
    BY <1>1, <1>2, RequestStaysRegular, TimesStayDifferent
  <2>2. /\ req' \in [Requests -> Request] /\ clock' \in Nat
        /\ \A s \in Requests \ {r} : req'[s] = req[s]
        /\ req[r].phase # "new" => req'[r].question = req[r].question
        /\ req[r].phase # "streaming" => req'[r].answer = req[r].answer
        /\ req'[r].phase = "asking" => req[r].phase = "new"
        /\ req'[r].phase = "saving" => req[r].phase = "streaming"
    BY <1>1, <1>2, OneRequestMoves
  <2>3. \A s \in Requests \ {r} : QuestionRegular(s)' /\ AnswerRegular(s)'
    BY <1>1, <2>2 DEF Regular, QuestionRegular, AnswerRegular
  <2>4. Regular'
    BY <2>1, <2>3 DEF Regular
  <2>5. /\ req[r].phase = "new" => req[r].question = NoMessage
        /\ req[r].phase = "streaming" => req[r].answer = NoMessage
    BY <1>1 DEF Regular, QuestionRegular, AnswerRegular
  <2> QED
    BY <2>1, <2>2, <2>4, <2>5
<1>3. CASE ClearHistory
  <2>1. req' = req /\ clock' = clock
    BY <1>3 DEF ClearHistory
  <2>2. Said' = Said
    BY <2>1 DEF Said
  <2>3. Regular' /\ TimesDiffer'
    BY <1>1, <2>1, <2>2 DEF Regular, QuestionRegular, AnswerRegular, TimesDiffer
  <2> QED
    BY <1>1, <2>1, <2>3 DEF TypeOK
<1> QED
  BY <1>2, <1>3 DEF Next, RequestStep

(* Types.                                                                   *)
LEMMA NextKeepsType ==
  ASSUME ChatInv, Next
  PROVE  TypeOK'
<1>1. StoreOK' /\ backend' \in Backends /\ req' \in [Requests -> Request] /\ clock' \in Nat
  BY StoredStays, RequestsMove DEF ChatInv, TypeOK
<1>2. cleared' \subseteq Message
  BY StoredStays, ListedAreMessages DEF ChatInv, TypeOK
<1>3. clears' \in 0 .. MaxClears /\ faults' \in 0 .. MaxFaults
  <2>1. /\ clears \in 0 .. MaxClears /\ faults \in 0 .. MaxFaults
        /\ MaxClears \in Nat /\ MaxFaults \in Nat
    BY ChatConstants DEF ChatInv, TypeOK
  <2>2. \/ clears' = clears
        \/ clears < MaxClears /\ clears' = clears + 1
    BY DEF Next, Step, Block, Accept, SaveQuestion, LoadHistory, HistoryFails, OpenStream,
       StreamToken, StreamStops, SaveAnswer, Announce, StoreFails, Disconnect,
       ClearHistory
  <2>3. \/ faults' = faults
        \/ faults < MaxFaults /\ faults' = faults + 1
    BY DEF Next, Step, Block, Accept, SaveQuestion, LoadHistory, HistoryFails, OpenStream,
       StreamToken, StreamStops, SaveAnswer, Announce, StoreFails, Disconnect,
       ClearHistory
  <2> QED
    BY <2>1, <2>2, <2>3
<1> QED
  BY <1>1, <1>2, <1>3 DEF TypeOK

(* What is listed, or was, has been stored by its request.                  *)
LEMMA NextKeepsAccounts ==
  ASSUME ChatInv, Next
  PROVE  Accounted'
<1> SUFFICES ASSUME NEW m \in Listed' \cup cleared'
             PROVE  IF m.role = "user"
                    THEN m = req'[m.by].question /\ req'[m.by].phase # "asking"
                    ELSE m = req'[m.by].answer /\ req'[m.by].phase # "saving"
  BY DEF Accounted
<1>1. CASE m \in Listed \cup cleared
  <2>1. m \in Message /\ m.by \in Requests /\ m # NoMessage
    BY <1>1, ListedAreMessages, NoMessageIsNone DEF ChatInv, TypeOK, Message
  <2>2. IF m.role = "user"
        THEN m = req[m.by].question /\ req[m.by].phase # "asking"
        ELSE m = req[m.by].answer /\ req[m.by].phase # "saving"
    BY <1>1 DEF ChatInv, Accounted
  <2> QED
    BY <2>1, <2>2, RequestsMove
<1>2. CASE m \notin Listed \cup cleared
  <2>1. PICK r \in Requests, n \in Message : Saves(r, n)
    <3>1. CASE ViewStays /\ StoreOK' /\ UNCHANGED <<backend, cleared>>
      BY <1>2, <3>1 DEF ViewStays
    <3>2. CASE ClearHistory
      BY <1>2, <3>2, StoreClears DEF ClearHistory, ChatInv, TypeOK
    <3> QED
      BY <3>1, <3>2, StoreSteps
  <2>2. m = n
    BY <1>2, <2>1, SavedIsNew, StoreAppends DEF Saves, ChatInv, TypeOK
  <2>3. /\ m.by = r
        /\ \/ m.role = "user" /\ m = req[r].question
           \/ m.role = "assistant" /\ m = req[r].answer
    BY <2>1, <2>2, SavedIsNew
  <2>4. /\ req'[r].question = req[r].question /\ req'[r].answer = req[r].answer
        /\ req'[r].phase \notin {"asking", "saving"}
    BY <2>1 DEF Saves, ChatInv, TypeOK, Request
  <2> QED
    BY <2>3, <2>4
<1> QED
  BY <1>1, <1>2

(* A question that is to be answered has been stored.                       *)
LEMMA NextKeepsQuestions ==
  ASSUME ChatInv, Next
  PROVE  QuestionSaved'
<1>1. TypeOK
  BY DEF ChatInv
<1>2. ASSUME NEW r \in Requests, RequestStep(r), QuestionDone(r)', ~ QuestionDone(r)
      PROVE  Saves(r, req[r].question) /\ req'[r].phase = "asked"
  <2>1. req \in [Requests -> Request] /\ req[r].phase \notin {"asked", "opening", "streaming",
          "saving", "announcing", "done", "failed"} /\ req[r].answer = NoMessage
    BY <1>1, <1>2 DEF TypeOK, QuestionDone
  <2>2. CASE SaveQuestion(r)
    BY <1>1, <2>1, <2>2, RequestStores DEF SaveQuestion, Request, RequestStep, Step
  <2>3. CASE Block(r) \/ StoreFails(r) \/ Disconnect(r)
    BY <1>2, <2>1, <2>3 DEF Block, StoreFails, Disconnect, Request, QuestionDone
  <2>4. CASE Accept(r)
    BY <1>2, <2>1, <2>4 DEF Accept, Request, QuestionDone
  <2> QED
    BY <1>2, <2>1, <2>2, <2>3, <2>4 DEF RequestStep, Step, LoadHistory, HistoryFails,
       OpenStream, StreamToken, StreamStops, SaveAnswer, Announce
<1>3. SUFFICES ASSUME NoLineLost', NEW r \in Requests, QuestionDone(r)'
               PROVE  Present(req[r].question)'
  BY DEF QuestionSaved
<1>4. CASE QuestionDone(r)
  <2>1. Present(req[r].question)
    BY <1>3, <1>4, StoredStays DEF ChatInv, QuestionSaved
  <2>2. req[r].question # NoMessage
    BY <1>4 DEF ChatInv, Regular, QuestionRegular, AnswerRegular, QuestionDone
  <2>3. req'[r].question = req[r].question
    BY <2>2, RequestsMove
  <2> QED
    BY <2>1, <2>3, StoredStays DEF Present
<1>5. CASE ~ QuestionDone(r)
  <2>1. Saves(r, req[r].question) /\ req'[r].phase = "asked"
    <3>1. CASE RequestStep(r)
      BY <1>2, <1>3, <1>5, <3>1
    <3>2. ASSUME NEW s \in Requests \ {r}, RequestStep(s)
          PROVE  FALSE
      BY <1>1, <1>3, <1>5, <3>2, OneRequestMoves DEF QuestionDone
    <3>3. CASE ClearHistory
      BY <1>3, <1>5, <3>3 DEF ClearHistory, QuestionDone
    <3> QED
      BY <3>1, <3>2, <3>3 DEF Next, RequestStep
  <2>2. req[r].question \in Message /\ req[r].question \notin Listed
    BY <2>1, SavedIsNew
  <2>3. req[r].question \in Listed'
    BY <1>3, <2>1, <2>2, StoreAppends DEF Saves, ChatInv, TypeOK
  <2>4. req'[r].question = req[r].question
    BY <1>1, <2>1 DEF Saves, TypeOK, Request
  <2> QED
    BY <2>3, <2>4 DEF Present
<1> QED
  BY <1>4, <1>5

(* An answer that is announced has been stored.                             *)
LEMMA NextKeepsAnswers ==
  ASSUME ChatInv, Next
  PROVE  AnswerSaved'
<1>1. TypeOK
  BY DEF ChatInv
<1>2. ASSUME NEW r \in Requests, RequestStep(r), AnswerDone(r)', ~ AnswerDone(r)
      PROVE  Saves(r, req[r].answer)
  <2>1. req \in [Requests -> Request] /\ req[r].phase # "announcing" /\ ~ req[r].announced
    BY <1>1, <1>2 DEF TypeOK, AnswerDone
  <2>2. req'[r].announced = req[r].announced
    BY <1>1, <1>2, <2>1, OneRequestMoves
  <2>3. req'[r].phase = "announcing"
    BY <1>2, <2>1, <2>2 DEF AnswerDone
  <2>4. CASE SaveAnswer(r)
    BY <1>1, <1>2, <2>1, <2>3, <2>4, RequestStores DEF SaveAnswer
  <2>5. CASE Block(r) \/ StoreFails(r) \/ Disconnect(r) \/ Accept(r)
    BY <2>1, <2>3, <2>5 DEF Block, StoreFails, Disconnect, Accept, Request
  <2>6. CASE \/ SaveQuestion(r) \/ LoadHistory(r) \/ HistoryFails(r)
             \/ OpenStream(r) \/ StreamToken(r) \/ Announce(r)
    BY <2>1, <2>3, <2>6 DEF SaveQuestion, LoadHistory, HistoryFails, OpenStream,
       StreamToken, Announce, Request
  <2>7. CASE \E broken \in BOOLEAN : StreamStops(r, broken)
    BY <2>1, <2>3, <2>7 DEF StreamStops, Request
  <2> QED
    BY <1>2, <2>4, <2>5, <2>6, <2>7 DEF RequestStep, Step
<1>3. SUFFICES ASSUME NoLineLost', NEW r \in Requests, AnswerDone(r)'
               PROVE  Present(req[r].answer)'
  BY DEF AnswerSaved
<1>4. CASE AnswerDone(r)
  <2>1. Present(req[r].answer)
    BY <1>3, <1>4, StoredStays DEF ChatInv, AnswerSaved
  <2>2. req[r].answer # NoMessage
    BY <1>4 DEF ChatInv, Regular, AnswerRegular, AnswerDone
  <2>3. req'[r].answer = req[r].answer
    BY <2>2, RequestsMove
  <2> QED
    BY <2>1, <2>3, StoredStays DEF Present
<1>5. CASE ~ AnswerDone(r)
  <2>1. Saves(r, req[r].answer)
    <3>1. CASE RequestStep(r)
      BY <1>2, <1>3, <1>5, <3>1
    <3>2. ASSUME NEW s \in Requests \ {r}, RequestStep(s)
          PROVE  FALSE
      BY <1>1, <1>3, <1>5, <3>2, OneRequestMoves DEF AnswerDone
    <3>3. CASE ClearHistory
      BY <1>3, <1>5, <3>3 DEF ClearHistory, AnswerDone
    <3> QED
      BY <3>1, <3>2, <3>3 DEF Next, RequestStep
  <2>2. req[r].answer \in Message /\ req[r].answer \notin Listed
    BY <2>1, SavedIsNew
  <2>3. req[r].answer \in Listed'
    BY <1>3, <2>1, <2>2, StoreAppends DEF Saves, ChatInv, TypeOK
  <2>4. req'[r].answer = req[r].answer
    BY <1>1, <2>1 DEF Saves, TypeOK, Request
  <2> QED
    BY <2>3, <2>4 DEF Present
<1> QED
  BY <1>4, <1>5

(* A clear is final.                                                        *)
LEMMA NextKeepsCleared ==
  ASSUME ChatInv, Next
  PROVE  ClearedStaysCleared'
<1> SUFFICES ASSUME NoLineLost'
             PROVE  cleared' \cap Listed' = {}
  BY DEF ClearedStaysCleared
<1>1. cleared \cap Listed = {} /\ StoreOK /\ LinesOnce
  BY StoredStays DEF ChatInv, TypeOK, ClearedStaysCleared
<1>2. CASE ViewStays /\ StoreOK' /\ UNCHANGED <<backend, cleared>>
  BY <1>1, <1>2 DEF ViewStays
<1>3. ASSUME NEW r \in Requests, NEW m \in Message, Saves(r, m)
      PROVE  cleared' \cap Listed' = {}
  BY <1>1, <1>3, SavedIsNew, StoreAppends DEF Saves
<1>4. CASE ClearHistory
  BY <1>1, <1>4, StoreClears DEF ClearHistory
<1> QED
  BY <1>2, <1>3, <1>4, StoreSteps

(* An answer comes after its question.                                      *)
LEMMA NextKeepsOrder ==
  ASSUME ChatInv, Next
  PROVE  AnswerFollowsQuestion'
<1> SUFFICES ASSUME NoLineLost', NEW m \in Listed', m.role = "assistant",
                    NEW q, q = req'[m.by].question
             PROVE  \/ q \in cleared'
                    \/ q \in Listed' /\ Precedes(q, m)'
  BY DEF AnswerFollowsQuestion
<1>1. NoLineLost /\ cleared \subseteq cleared' /\ StoreOK /\ LinesOnce
  BY StoredStays DEF ChatInv, TypeOK
<1>2. CASE m \in Listed
  <2>1. \/ req[m.by].question \in cleared
        \/ /\ req[m.by].question \in Listed
           /\ Precedes(req[m.by].question, m)
    BY <1>1, <1>2 DEF ChatInv, AnswerFollowsQuestion
  <2>2. req[m.by].question # NoMessage /\ m.by \in Requests
    <3>1. m \in Message /\ m = req[m.by].answer
      BY <1>2, ListedAreMessages DEF ChatInv, TypeOK, Accounted
    <3> QED
      BY <3>1, NoMessageIsNone DEF ChatInv, Regular, QuestionRegular, AnswerRegular, Message
  <2>3. req[m.by].question = q
    BY <2>2, RequestsMove
  <2>4. CASE ViewStays /\ StoreOK' /\ UNCHANGED <<backend, cleared>>
    BY <2>1, <2>3, <2>4 DEF ViewStays
  <2>5. ASSUME NEW r \in Requests, NEW n \in Message, Saves(r, n)
        PROVE  \/ q \in cleared'
               \/ q \in Listed' /\ Precedes(q, m)'
    <3>1. n \notin Listed /\ store' = Kept(n) /\ backend' = backend /\ cleared' = cleared
      BY <2>5, SavedIsNew DEF Saves
    <3>2. Listed \subseteq Listed' /\ (Precedes(q, m) => Precedes(q, m)')
      BY <1>1, <3>1, StoreAppends
    <3> QED
      BY <2>1, <2>3, <3>1, <3>2
  <2>6. CASE ClearHistory
    BY <1>1, <2>6, StoreClears DEF ClearHistory
  <2> QED
    BY <2>4, <2>5, <2>6, StoreSteps
<1>3. CASE m \notin Listed
  <2>1. PICK r \in Requests, n \in Message : Saves(r, n)
    <3>1. CASE ClearHistory
      BY <1>1, <3>1, StoreClears DEF ClearHistory
    <3> QED
      BY <1>3, <3>1, StoreSteps DEF ViewStays
  <2>2. m = n /\ n \notin Listed
    BY <1>1, <1>3, <2>1, SavedIsNew, StoreAppends DEF Saves
  <2>3. m.by = r /\ m = req[r].answer /\ m \in Message
    BY <2>1, <2>2, SavedIsNew
  <2>4. req[r].answer # NoMessage /\ req[r].question = q
    BY <2>1, <2>3, NoMessageIsNone DEF Saves, ChatInv, TypeOK, Request
  <2>5. Present(q)
    BY <1>1, <2>4 DEF ChatInv, QuestionSaved, QuestionDone
  <2>6. q.at < m.at
    BY <2>3, <2>4 DEF ChatInv, Regular, AnswerRegular
  <2>7. store' = Kept(m) /\ backend' = backend
    BY <2>1, <2>2 DEF Saves
  <2>8. /\ Listed \subseteq Listed'
        /\ backend = "json" => \A a \in Listed : Precedes(a, m)'
    BY <1>1, <2>2, <2>7, StoreAppends
  <2>9. backend # "json" => Precedes(q, m)'
    BY <2>6, <2>7 DEF Precedes, PgPrecedes
  <2> QED
    BY <1>1, <2>5, <2>8, <2>9 DEF Present
<1> QED
  BY <1>2, <1>3

-------------------------------------------------------------------------------
(* The last messages of the list.                                           *)

LEMMA ListIsLast ==
  ASSUME NEW k \in Nat
  PROVE  List(k) = {m \in Listed : Cardinality({n \in Listed : Precedes(m, n)}) < k}
<1>1. CASE backend = "json"
  BY <1>1 DEF List, JsonList, LastOf, Listed, Precedes
<1>2. CASE backend # "json"
  BY <1>2 DEF List, PgList, LastOf, Listed, Precedes
<1> QED
  BY <1>1, <1>2

(* Messages are listed one after another.                                   *)
LEMMA ListedInOrder ==
  ASSUME ChatInv
  PROVE  /\ \A m \in Listed : ~ Precedes(m, m)
         /\ \A m, n \in Listed : m # n => Precedes(m, n) \/ Precedes(n, m)
         /\ \A l, m, n \in Listed : Precedes(l, m) /\ Precedes(m, n) => Precedes(l, n)
<1>1. CASE backend = "json"
  <2>1. MessageLines(store) \subseteq Nat
    BY <1>1, LenProperties DEF ChatInv, TypeOK, StoreOK, MessageLines, Effective
  <2>2. \A i, j \in MessageLines(store) : store[i].message = store[j].message => i = j
    BY <1>1 DEF ChatInv, LinesOnce
  <2>3. \A m \in Listed : \E i \in MessageLines(store) : store[i].message = m
    BY <1>1 DEF Listed, JsonListed
  <2>4. \A m, n : Precedes(m, n) <=>
          \E i, j \in MessageLines(store) :
            i < j /\ store[i].message = m /\ store[j].message = n
    BY <1>1 DEF Precedes, JsonPrecedes
  <2>5. \A m \in Listed : ~ Precedes(m, m)
    BY <2>1, <2>2, <2>4
  <2>6. ASSUME NEW m \in Listed, NEW n \in Listed, m # n
        PROVE  Precedes(m, n) \/ Precedes(n, m)
    <3>1. PICK i, j \in MessageLines(store) : store[i].message = m /\ store[j].message = n
      BY <2>3
    <3>2. i < j \/ j < i
      BY <2>1, <2>6, <3>1
    <3> QED
      BY <2>4, <3>1, <3>2
  <2>7. ASSUME NEW l \in Listed, NEW m \in Listed, NEW n \in Listed,
               Precedes(l, m), Precedes(m, n)
        PROVE  Precedes(l, n)
    <3>1. PICK i, j \in MessageLines(store) :
            i < j /\ store[i].message = l /\ store[j].message = m
      BY <2>4, <2>7
    <3>2. PICK k \in MessageLines(store) : j < k /\ store[k].message = n
      BY <2>2, <2>4, <2>7, <3>1
    <3>3. i < k
      BY <2>1, <3>1, <3>2
    <3> QED
      BY <2>4, <3>1, <3>2, <3>3
  <2> QED
    BY <2>5, <2>6, <2>7
<1>2. CASE backend # "json"
  <2>1. \A m \in Listed : m \in Said /\ m \in Message
    <3>1. Listed \subseteq Message /\ Accounted
      BY ListedAreMessages DEF ChatInv, TypeOK
    <3> QED
      BY <3>1, NoMessageIsNone DEF Accounted, Said, Message
  <2>2. \A m \in Listed : m.at \in Nat
    BY <2>1 DEF Message
  <2>3. \A m, n \in Listed : m.at = n.at => m = n
    BY <2>1 DEF ChatInv, TimesDiffer
  <2>4. \A m, n : Precedes(m, n) <=> m.at < n.at
    BY <1>2 DEF Precedes, PgPrecedes
  <2> QED
    BY <2>2, <2>3, <2>4
<1> QED
  BY <1>1, <1>2

(* As many messages as were asked for, if there are as many: each is        *)
(* followed by another number of messages, so every number occurs.          *)
LEMMA AsManyAsAsked ==
  ASSUME ChatInv, NEW k \in Nat, k <= Cardinality(Listed)
  PROVE  Cardinality(List(k)) = k
<1> DEFINE After(m) == {n \in Listed : Precedes(m, n)}
           size == Cardinality(Listed)
           follow == [m \in Listed |-> Cardinality(After(m))]
<1>1. IsFiniteSet(Listed) /\ size \in Nat
  BY ListedAreMessages, FS_CardinalityType DEF ChatInv, TypeOK
<1>2. \A m \in Listed : /\ After(m) \in SUBSET Listed /\ m \notin After(m)
                        /\ IsFiniteSet(After(m)) /\ Cardinality(After(m)) \in Nat
  <2> SUFFICES ASSUME NEW m \in Listed
               PROVE  /\ After(m) \in SUBSET Listed /\ m \notin After(m)
                      /\ IsFiniteSet(After(m)) /\ Cardinality(After(m)) \in Nat
    OBVIOUS
  <2>1. After(m) \in SUBSET Listed /\ m \notin After(m)
    BY ListedInOrder
  <2>2. IsFiniteSet(After(m))
    BY <1>1, <2>1, FS_Subset
  <2> QED
    BY <2>1, <2>2, FS_CardinalityType
<1>3. ASSUME NEW m \in Listed, NEW n \in Listed, Precedes(m, n)
      PROVE  follow[n] < follow[m]
  <2>1. After(n) \in SUBSET After(m) /\ n \in After(m) /\ n \notin After(n)
    BY <1>2, <1>3, ListedInOrder
  <2>2. IsFiniteSet(After(m))
    BY <1>2
  <2> HIDE DEF After
  <2>3. Cardinality(After(n)) <= Cardinality(After(m)) /\ Cardinality(After(n)) # Cardinality(After(m))
    BY <2>1, <2>2, FS_Subset
  <2> QED
    BY <1>2, <2>3
<1>4. follow \in [Listed -> 0 .. size - 1]
  <2> SUFFICES ASSUME NEW m \in Listed
               PROVE  Cardinality(After(m)) \in 0 .. size - 1
    OBVIOUS
  <2>1. After(m) \in SUBSET Listed /\ After(m) # Listed /\ Cardinality(After(m)) \in Nat
    BY <1>2
  <2> HIDE DEF After
  <2>2. Cardinality(After(m)) <= size /\ Cardinality(After(m)) # size
    BY <1>1, <2>1, FS_Subset
  <2> QED
    BY <1>1, <2>1, <2>2
<1>5. \A m, n \in Listed : follow[m] = follow[n] => m = n
  <2> SUFFICES ASSUME NEW m \in Listed, NEW n \in Listed, follow[m] = follow[n], m # n
               PROVE  FALSE
    OBVIOUS
  <2>1. follow[m] \in 0 .. size - 1 /\ follow[n] \in 0 .. size - 1
    BY <1>4
  <2>2. follow[m] < follow[n] \/ follow[n] < follow[m]
    BY <1>3, ListedInOrder
  <2> HIDE DEF follow
  <2> QED
    BY <2>1, <2>2
<1>6. List(k) = {m \in Listed : follow[m] < k}
  BY ListIsLast
<1> HIDE DEF After, follow
<1>7. follow \in Surjection(Listed, 0 .. size - 1)
  <2>1. follow \in Injection(Listed, 0 .. size - 1)
    BY <1>4, <1>5, Fun_IsInj
  <2>2. 0 \in Int /\ size - 1 \in Int
    BY <1>1
  <2>3. IsFiniteSet(0 .. size - 1) /\ Cardinality(0 .. size - 1) = size
    BY <1>1, <2>2, FS_Interval
  <2> QED
    BY <2>1, <2>3, FS_Injection
<1> DEFINE few == {m \in Listed : follow[m] < k}
           g == [m \in few |-> follow[m]]
<1>8. g \in [few -> 0 .. k - 1] /\ (\A m, n \in few : g[m] = g[n] => m = n)
  BY <1>1, <1>4, <1>5
<1>9. \A t \in 0 .. k - 1 : \E m \in few : g[m] = t
  <2> SUFFICES ASSUME NEW t \in 0 .. k - 1
               PROVE  \E m \in few : g[m] = t
    OBVIOUS
  <2>1. t \in 0 .. size - 1 /\ t < k
    BY <1>1
  <2>2. PICK m \in Listed : follow[m] = t
    BY <1>7, <2>1 DEF Surjection
  <2> QED
    BY <2>1, <2>2
<1> HIDE DEF g, few
<1>10. g \in Injection(few, 0 .. k - 1) /\ g \in Surjection(few, 0 .. k - 1)
  BY <1>8, <1>9, Fun_IsInj, Fun_IsSurj
<1>11. IsFiniteSet(0 .. k - 1) /\ Cardinality(0 .. k - 1) = k
  <2>1. 0 \in Int /\ k - 1 \in Int
    OBVIOUS
  <2> QED
    BY <2>1, FS_Interval
<1>12. Cardinality(few) = k
  BY <1>10, <1>11, FS_Injection
<1> QED
  BY <1>6, <1>12 DEF few

(* A listed message that is not among the last k precedes all of those.     *)
LEMMA OutsidersPrecede ==
  ASSUME ChatInv, NEW k \in Nat, NEW q \in Listed, q \notin List(k)
  PROVE  Cardinality(List(k)) = k /\ \A m \in List(k) : Precedes(q, m)
<1> DEFINE After(m) == {n \in Listed : Precedes(m, n)}
<1>1. IsFiniteSet(Listed) /\ Cardinality(Listed) \in Nat
  BY ListedAreMessages, FS_CardinalityType DEF ChatInv, TypeOK
<1>2. \A m \in Listed : After(m) \in SUBSET Listed /\ IsFiniteSet(After(m))
  <2> SUFFICES ASSUME NEW m \in Listed
               PROVE  After(m) \in SUBSET Listed /\ IsFiniteSet(After(m))
    OBVIOUS
  <2> QED
    BY <1>1, FS_Subset
<1>3. \A m \in Listed : Cardinality(After(m)) \in Nat
  BY <1>2, FS_CardinalityType
<1>4. List(k) = {m \in Listed : Cardinality(After(m)) < k}
  BY ListIsLast
<1>5. \A m, n \in Listed : Precedes(m, n) => After(n) \in SUBSET After(m)
  BY ListedInOrder
<1>6. \A m, n \in Listed : m = n => After(n) = After(m)
  OBVIOUS
<1> HIDE DEF After
<1>7. ~ (Cardinality(After(q)) < k)
  BY <1>4
<1>8. Cardinality(After(q)) <= Cardinality(Listed)
  BY <1>1, <1>2, FS_Subset
<1>9. Cardinality(List(k)) = k
  <2>1. k <= Cardinality(Listed)
    BY <1>1, <1>3, <1>7, <1>8
  <2> QED
    BY <2>1, AsManyAsAsked
<1>10. ASSUME NEW m \in List(k)
       PROVE  Precedes(q, m)
  <2>1. m \in Listed /\ Cardinality(After(m)) < k
    BY <1>4, <1>10
  <2>2. CASE Precedes(m, q)
    <3>1. After(q) \in SUBSET After(m)
      BY <1>5, <2>1, <2>2
    <3>2. Cardinality(After(q)) <= Cardinality(After(m))
      BY <1>2, <2>1, <3>1, FS_Subset
    <3> QED
      BY <1>3, <1>7, <2>1, <3>2
  <2> QED
    BY <1>7, <2>1, <2>2, ListedInOrder
<1> QED
  BY <1>9, <1>10

-------------------------------------------------------------------------------
(* The service.                                                             *)

LEMMA ChatInitInv == Init => ChatInv
<1> SUFFICES ASSUME Init PROVE ChatInv
  OBVIOUS
<1>1. Listed = {} /\ StoreOK /\ LinesOnce
  <2>1. CASE backend = "json"
    <3>1. store = << >> /\ DOMAIN store = {} /\ store \in Seq(Line(Message))
      BY <2>1 DEF Init
    <3> QED
      BY <2>1, <3>1 DEF Listed, JsonListed, MessageLines, Effective, StoreOK, LinesOnce
  <2>2. CASE backend # "json"
    <3>1. store = {}
      BY <2>2 DEF Init
    <3> QED
      BY <2>2, <3>1, FS_EmptySet DEF Listed, PgListed, StoreOK, LinesOnce
  <2> QED
    BY <2>1, <2>2
<1>2. TypeOK
  BY <1>1, ChatConstants DEF Init, TypeOK, Request
<1>3. Said = {} /\ TimesDiffer
  BY DEF Init, Said, TimesDiffer
<1>4. Regular
  BY DEF Init, Regular, QuestionRegular, AnswerRegular
<1>5. Accounted /\ AnswerFollowsQuestion /\ ClearedStaysCleared
  BY <1>1 DEF Init, Accounted, AnswerFollowsQuestion, ClearedStaysCleared
<1>6. QuestionSaved /\ AnswerSaved
  BY DEF Init, QuestionSaved, AnswerSaved, QuestionDone, AnswerDone
<1> QED
  BY <1>1, <1>2, <1>3, <1>4, <1>5, <1>6 DEF ChatInv

LEMMA ChatStutters == ChatInv /\ UNCHANGED vars => ChatInv'
<1> SUFFICES ASSUME ChatInv, UNCHANGED vars PROVE ChatInv'
  OBVIOUS
<1>1. /\ backend' = backend /\ store' = store /\ clock' = clock /\ req' = req
      /\ cleared' = cleared /\ clears' = clears /\ faults' = faults
  BY DEF vars
<1>2. ViewStays /\ StoreOK'
  BY <1>1, StoreStays DEF ChatInv, TypeOK
<1>3. \A m : Present(m)' <=> Present(m)
  BY <1>1, <1>2 DEF Present, ViewStays
<1>4. Said' = Said
  BY <1>1 DEF Said
<1>5. TypeOK' /\ TimesDiffer' /\ LinesOnce'
  BY <1>1, <1>2, <1>4 DEF ChatInv, TypeOK, TimesDiffer, ViewStays
<1>6. Regular' /\ Accounted'
  BY <1>1, <1>2 DEF ChatInv, Regular, QuestionRegular, AnswerRegular, Accounted, ViewStays
<1>7. QuestionSaved' /\ AnswerSaved'
  BY <1>1, <1>2, <1>3 DEF ChatInv, QuestionSaved, AnswerSaved, QuestionDone, AnswerDone,
     ViewStays
<1>8. AnswerFollowsQuestion'
  BY <1>1, <1>2 DEF ChatInv, AnswerFollowsQuestion, ViewStays
<1>9. ClearedStaysCleared'
  BY <1>1, <1>2 DEF ChatInv, ClearedStaysCleared, ViewStays
<1> QED
  BY <1>5, <1>6, <1>7, <1>8, <1>9 DEF ChatInv

LEMMA ChatInvariance == Spec => []ChatInv
<1>1. ChatInv /\ [Next]_vars => ChatInv'
  <2>1. ASSUME ChatInv, Next
        PROVE  ChatInv'
    BY <2>1, NextKeepsType, RequestsMove, NextKeepsAccounts, StoredStays,
       NextKeepsQuestions, NextKeepsAnswers, NextKeepsOrder, NextKeepsCleared
       DEF ChatInv
  <2> QED
    BY <2>1, ChatStutters
<1> QED
  BY <1>1, ChatInitInv, PTL DEF Spec

(* The state of the chat is well typed.                                     *)
THEOREM ChatTypeCorrect == Spec => []TypeOK
<1>1. ChatInv => TypeOK
  BY DEF ChatInv
<1> QED
  BY <1>1, ChatInvariance, PTL

(* An announced answer is listed until it is cleared, and nothing that was  *)
(* streamed to the end goes unannounced.                                    *)
THEOREM AnswersStay == Spec => []AnswersKept
<1>1. ChatInv => AnswersKept
  <2> SUFFICES ASSUME ChatInv, NoLineLost, NEW r \in Requests,
                      req[r].announced \/ (req[r].phase \in {"done", "failed"} /\ req[r].buffer > 0)
               PROVE  /\ req[r].announced
                      /\ Present(req[r].answer)
                      /\ req[r].answer.tokens = req[r].buffer
    BY DEF AnswersKept
  <2>1. AnswerRegular(r)
    BY DEF ChatInv, Regular
  <2>2. req[r].announced /\ req[r].answer # NoMessage
    BY <2>1 DEF AnswerRegular
  <2>3. Present(req[r].answer)
    BY <2>2 DEF ChatInv, AnswerSaved, AnswerDone
  <2> QED
    BY <2>1, <2>2, <2>3 DEF AnswerRegular
<1> QED
  BY <1>1, ChatInvariance, PTL

(* An answer is listed after its question.                                  *)
THEOREM AnswersFollow == Spec => []AnswerFollowsQuestion
<1>1. ChatInv => AnswerFollowsQuestion
  BY DEF ChatInv
<1> QED
  BY <1>1, ChatInvariance, PTL

(* The history that is loaded has the question, unless that was cleared or  *)
(* a whole window of messages is listed after it.                           *)
THEOREM QuestionIsSent == Spec => QuestionInContext
<1> DEFINE Sent ==
      NoLineLost => \A r \in Requests :
        req[r].phase = "asked" /\ req'[r].phase = "opening" =>
          \/ req[r].question \in req'[r].context \cup cleared
          \/ /\ Cardinality(req'[r].context) = context_window
             /\ \A m \in req'[r].context : Precedes(req[r].question, m)
<1>1. ASSUME ChatInv, NoLineLost, NEW r \in Requests, LoadHistory(r)
      PROVE  \/ req[r].question \in req'[r].context \cup cleared
             \/ /\ Cardinality(req'[r].context) = context_window
                /\ \A m \in req'[r].context : Precedes(req[r].question, m)
  <2>1. req'[r].context = List(context_window) /\ context_window \in Nat
    BY <1>1, ChatConstants DEF LoadHistory, ChatInv, TypeOK, Request
  <2>2. req[r].question \in Listed \/ req[r].question \in cleared
    BY <1>1 DEF LoadHistory, ChatInv, QuestionSaved, QuestionDone, Present
  <2> QED
    BY <1>1, <2>1, <2>2, OutsidersPrecede
<1>2. ASSUME ChatInv, NEW r \in Requests, RequestStep(r),
             req[r].phase = "asked", req'[r].phase = "opening"
      PROVE  LoadHistory(r)
  <2>1. req \in [Requests -> Request]
    BY <1>2 DEF ChatInv, TypeOK
  <2>2. CASE HistoryFails(r) \/ Disconnect(r)
    BY <1>2, <2>1, <2>2 DEF HistoryFails, Disconnect, Request
  <2>3. \/ LoadHistory(r) \/ HistoryFails(r) \/ Disconnect(r)
    BY <1>2 DEF RequestStep, Block, Accept, StoreFails, Step, SaveQuestion, OpenStream,
       StreamToken, StreamStops, SaveAnswer, Announce
  <2> QED
    BY <2>2, <2>3
<1>3. ChatInv /\ [Next]_vars => [Sent]_vars
  <2> SUFFICES ASSUME ChatInv, Next, NoLineLost, NEW r \in Requests,
                      req[r].phase = "asked", req'[r].phase = "opening"
               PROVE  \/ req[r].question \in req'[r].context \cup cleared
                      \/ /\ Cardinality(req'[r].context) = context_window
                         /\ \A m \in req'[r].context : Precedes(req[r].question, m)
    OBVIOUS
  <2>1. req'[r] # req[r]
    OBVIOUS
  <2>2. PICK s \in Requests : RequestStep(s)
    BY <2>1 DEF Next, RequestStep, ClearHistory
  <2>3. s = r
    BY <2>1, <2>2, OneRequestMoves DEF ChatInv
  <2> QED
    BY <1>1, <1>2, <2>2, <2>3
<1> QED
  BY <1>3, ChatInvariance, PTL DEF Spec, QuestionInContext

(* What was cleared is not listed again.                                    *)
THEOREM ClearIsFinal == Spec => []ClearedStaysCleared
<1>1. ChatInv => ClearedStaysCleared
  BY DEF ChatInv
<1> QED
  BY <1>1, ChatInvariance, PTL

(* A file's history grows at its end.                                       *)
THEOREM HistoryOnlyGrows == Spec => HistoryGrows
<1> DEFINE Grows ==
      backend = "json" /\ clears' = clears =>
        /\ Listed \subseteq Listed'
        /\ \A m \in Listed', n \in Listed :
             Precedes(m, n)' => m \in Listed /\ Precedes(m, n)
<1>1. ChatInv /\ [Next]_vars => [Grows]_vars
  <2> SUFFICES ASSUME ChatInv, Next, backend = "json", clears' = clears
               PROVE  /\ Listed \subseteq Listed'
                      /\ \A m \in Listed', n \in Listed :
                           Precedes(m, n)' => m \in Listed /\ Precedes(m, n)
    OBVIOUS
  <2>1. CASE ViewStays
    BY <2>1 DEF ViewStays
  <2>2. ASSUME NEW r \in Requests, NEW l \in Message, Saves(r, l)
        PROVE  /\ Listed \subseteq Listed'
               /\ \A m \in Listed', n \in Listed :
                    Precedes(m, n)' => m \in Listed /\ Precedes(m, n)
    <3>1. l \notin Listed /\ store' = Kept(l) /\ backend' = backend
      BY <2>2, SavedIsNew DEF Saves
    <3>2. StoreOK /\ LinesOnce
      BY DEF ChatInv, TypeOK
    <3>3. /\ Listed \subseteq Listed'
          /\ \A m, n : Precedes(m, n)' => Precedes(m, n) \/ n = l
      BY <3>1, <3>2, StoreAppends
    <3>4. \A m, n : Precedes(m, n) => m \in Listed
      BY DEF Precedes, JsonPrecedes, Listed, JsonListed
    <3> QED
      BY <3>1, <3>3, <3>4
  <2>3. ~ ClearHistory
    BY DEF ClearHistory, ChatInv, TypeOK
  <2> QED
    BY <2>1, <2>2, <2>3, StoreSteps
<1> QED
  BY <1>1, ChatInvariance, PTL DEF Spec, HistoryGrows

-------------------------------------------------------------------------------
(* The contract.                                                            *)

LEMMA ContractInitInv == ContractInit => ContractInv
<1> SUFFICES ASSUME ContractInit PROVE ContractInv
  OBVIOUS
<1>1. file = << >> /\ rows = {} /\ visible = << >> /\ calls = 0
  BY DEF ContractInit
<1>2. /\ Len(file) = 0 /\ Len(visible) = 0 /\ DOMAIN file = {} /\ DOMAIN visible = {}
      /\ file \in Seq(Line(Entry)) /\ visible \in Seq(Entry)
  BY <1>1
<1>3. MessageLines(file) = {}
  BY <1>2 DEF MessageLines, Effective
<1>4. FileEndsWithVisible
  BY <1>1, <1>2, <1>3 DEF FileEndsWithVisible, Torn
<1> QED
  BY <1>1, <1>2, <1>4 DEF ContractInv, ContractTypeOK, VisibleInOrder,
     RowsAreVisible, PgListed

LEMMA AppendKeepsContract ==
  ASSUME ContractInv, NEW text \in Texts, AppendMessage(text)
  PROVE  ContractInv'
<1> DEFINE m == [at |-> calls + 1, text |-> text]
           N == Len(visible)
           L == Len(file)
<1>1. /\ calls \in Nat /\ calls' = calls + 1
      /\ m \in Entry /\ m.at = calls + 1
      /\ file' = JsonAppendMessage(file, m) /\ rows' = PgAppendMessage(rows, m)
      /\ visible' = Append(visible, m)
  BY DEF ContractInv, ContractTypeOK, AppendMessage, Entry
<1> HIDE DEF m
<1>2. /\ file \in Seq(Line(Entry)) /\ visible \in Seq(Entry) /\ ~ Torn(file)
      /\ L \in Nat /\ N \in Nat /\ N <= L
      /\ DOMAIN file = 1 .. L /\ DOMAIN visible = 1 .. N
  BY LenProperties DEF ContractInv, ContractTypeOK, FileEndsWithVisible
<1>3. MessageLine(m) \in Line(Entry) /\ AreLines(Line(Entry))
  BY <1>1, LinesAre
<1>4. file' = Append(file, MessageLine(m))
  BY <1>1, <1>2 DEF JsonAppendMessage, JsonAppendLine
<1>5. /\ file' \in Seq(Line(Entry)) /\ Len(file') = L + 1
      /\ file'[L + 1] = MessageLine(m)
  BY <1>2, <1>3, <1>4, AppendProperties
<1>6. Appended(file, file', MessageLine(m))
  BY <1>1, <1>2, <1>3, AppendedLine DEF JsonAppendMessage
<1>7. ListedLast(file, file', m)
  BY <1>2, <1>6, MessageLineAdds
<1>8. /\ visible' \in Seq(Entry) /\ Len(visible') = N + 1
      /\ visible'[N + 1] = m /\ \A i \in 1 .. N : visible'[i] = visible[i]
  BY <1>1, <1>2, AppendProperties
<1>9. DOMAIN visible' = (1 .. N) \cup {N + 1}
  <2>1. DOMAIN visible' = 1 .. N + 1
    BY <1>8, LenProperties
  <2> QED
    BY <1>2, <2>1
<1>10. VisibleInOrder'
  <2>1. \A i \in 1 .. N : visible[i].at <= calls /\ visible[i].at \in Nat
    <3>1. \A i \in 1 .. N : visible[i] \in Entry
      BY <1>2, ElementOfSeq
    <3>2. \A i \in 1 .. N : visible[i].at <= calls
      BY <1>2 DEF ContractInv, VisibleInOrder
    <3> QED
      BY <3>1, <3>2 DEF Entry
  <2>2. \A i \in DOMAIN visible' : visible'[i].at <= calls'
    BY <1>1, <1>8, <1>9, <2>1
  <2>3. ASSUME NEW i \in DOMAIN visible', NEW j \in DOMAIN visible', i < j
        PROVE  visible'[i].at < visible'[j].at
    <3>1. CASE j = N + 1
      <4>1. i \in 1 .. N
        BY <1>2, <1>9, <2>3, <3>1
      <4> QED
        BY <1>1, <1>8, <2>1, <3>1, <4>1
    <3>2. CASE j # N + 1
      <4>1. j \in 1 .. N /\ i \in 1 .. N
        BY <1>2, <1>9, <2>3, <3>2
      <4> QED
        BY <1>2, <1>8, <2>3, <4>1 DEF ContractInv, VisibleInOrder
    <3> QED
      BY <3>1, <3>2
  <2> QED
    BY <2>2, <2>3 DEF VisibleInOrder
<1>11. FileEndsWithVisible'
  <2>1. ~ Torn(file)'
    BY <1>2, <1>5 DEF Torn, MessageLine
  <2>2. MessageLines(file') = (L - N + 1 .. L) \cup {L + 1}
    BY <1>7 DEF ListedLast, ContractInv, FileEndsWithVisible
  <2>3. MessageLines(file') = Len(file') - Len(visible') + 1 .. Len(file')
    BY <1>2, <1>5, <1>8, <2>2
  <2>4. \A i \in DOMAIN visible' :
          file'[Len(file') - Len(visible') + i].message = visible'[i]
    <3> SUFFICES ASSUME NEW i \in DOMAIN visible'
                 PROVE  file'[L - N + i].message = visible'[i]
      BY <1>2, <1>5, <1>8
    <3>1. CASE i = N + 1
      <4>1. L - N + i = L + 1
        BY <1>2, <3>1
      <4> QED
        BY <1>7, <1>8, <3>1, <4>1 DEF ListedLast
    <3>2. CASE i # N + 1
      <4>1. i \in 1 .. N /\ L - N + i \in L - N + 1 .. L
        BY <1>2, <1>9, <3>2
      <4>2. L - N + i \in MessageLines(file)
        BY <4>1 DEF ContractInv, FileEndsWithVisible
      <4>3. file'[L - N + i] = file[L - N + i]
        BY <1>7, <4>2 DEF ListedLast
      <4> QED
        BY <1>2, <1>8, <4>1, <4>3 DEF ContractInv, FileEndsWithVisible
    <3> QED
      BY <3>1, <3>2
  <2> QED
    BY <1>2, <1>5, <1>8, <2>1, <2>3, <2>4 DEF FileEndsWithVisible
<1>12. RowsAreVisible'
  <2> DEFINE row == [message |-> m, deleted |-> FALSE]
  <2>1. ~ row.deleted /\ row.message = m /\ rows' = rows \cup {row}
    BY <1>1 DEF PgAppendMessage
  <2> HIDE DEF row
  <2>2. PgListed(rows') = PgListed(rows) \cup {m}
    BY <2>1 DEF PgListed
  <2>3. {visible'[i] : i \in DOMAIN visible'} = {visible[i] : i \in 1 .. N} \cup {m}
    BY <1>8, <1>9
  <2> QED
    BY <1>2, <2>2, <2>3 DEF RowsAreVisible, ContractInv
<1>13. ContractTypeOK'
  <2>1. rows' \subseteq [message : Entry, deleted : BOOLEAN]
    <3>1. [message |-> m, deleted |-> FALSE] \in [message : Entry, deleted : BOOLEAN]
      BY <1>1
    <3>2. rows' = rows \cup {[message |-> m, deleted |-> FALSE]}
      BY <1>1 DEF PgAppendMessage
    <3> QED
      BY <3>1, <3>2 DEF ContractInv, ContractTypeOK
  <2>2. calls' \in Nat
    BY <1>1
  <2> QED
    BY <1>5, <1>8, <2>1, <2>2 DEF ContractTypeOK
<1> QED
  BY <1>10, <1>11, <1>12, <1>13 DEF ContractInv

LEMMA ClearKeepsContract ==
  ASSUME ContractInv, SoftDeleteMessages
  PROVE  ContractInv'
<1> DEFINE L == Len(file)
<1>1. /\ calls \in Nat /\ calls' = calls + 1 /\ visible' = << >>
      /\ file' = JsonSoftDelete(file) /\ rows' = PgSoftDelete(rows)
  BY DEF ContractInv, ContractTypeOK, SoftDeleteMessages
<1>2. /\ file \in Seq(Line(Entry)) /\ ~ Torn(file)
      /\ L \in Nat /\ DOMAIN file = 1 .. L
  BY LenProperties DEF ContractInv, ContractTypeOK, FileEndsWithVisible
<1>3. SoftDeleteLine \in Line(Entry) /\ AreLines(Line(Entry))
  BY LinesAre DEF AreLines
<1>4. file' = Append(file, SoftDeleteLine)
  BY <1>1, <1>2 DEF JsonSoftDelete, JsonAppendLine
<1>5. /\ file' \in Seq(Line(Entry)) /\ Len(file') = L + 1
      /\ file'[L + 1] = SoftDeleteLine
  BY <1>2, <1>3, <1>4, AppendProperties
<1>6. Appended(file, file', SoftDeleteLine)
  BY <1>1, <1>2, <1>3, AppendedLine DEF JsonSoftDelete
<1>7. MessageLines(file') = {}
  BY <1>2, <1>6, MarkerClears
<1>8. visible' \in Seq(Entry) /\ Len(visible') = 0 /\ DOMAIN visible' = {}
  BY <1>1
<1>9. FileEndsWithVisible'
  <2>1. ~ Torn(file)'
    BY <1>2, <1>5 DEF Torn, SoftDeleteLine
  <2>2. Len(file') - Len(visible') + 1 .. Len(file') = {}
    BY <1>2, <1>5, <1>8
  <2> QED
    BY <1>2, <1>5, <1>7, <1>8, <2>1, <2>2 DEF FileEndsWithVisible
<1>10. RowsAreVisible' /\ ContractTypeOK'
  <2>1. rows' = {[row EXCEPT !.deleted = TRUE] : row \in rows}
    BY <1>1 DEF PgSoftDelete
  <2>2. /\ rows' \subseteq [message : Entry, deleted : BOOLEAN]
        /\ \A row \in rows' : row.deleted
    BY <2>1 DEF ContractInv, ContractTypeOK
  <2>3. PgListed(rows') = {}
    BY <2>2 DEF PgListed
  <2> QED
    BY <1>1, <1>5, <1>8, <2>2, <2>3 DEF RowsAreVisible, ContractTypeOK
<1>11. VisibleInOrder'
  BY <1>8 DEF VisibleInOrder
<1> QED
  BY <1>9, <1>10, <1>11 DEF ContractInv

(* Two visible messages are in the order of their calls.                    *)
LEMMA ListsAgree ==
  ASSUME ContractInv
  PROVE  /\ JsonListed(file) = {visible[i] : i \in DOMAIN visible}
         /\ PgListed(rows) = {visible[i] : i \in DOMAIN visible}
         /\ \A i, j \in DOMAIN visible :
              /\ JsonPrecedes(file, visible[i], visible[j]) <=> i < j
              /\ PgPrecedes(visible[i], visible[j]) <=> i < j
              /\ visible[i] = visible[j] => i = j
<1> DEFINE N == Len(visible)
           d == Len(file) - Len(visible)
<1>1. /\ N \in Nat /\ d \in Nat /\ DOMAIN visible = 1 .. N
      /\ \A i \in 1 .. N : visible[i].at \in Nat
  <2>1. /\ visible \in Seq(Entry) /\ file \in Seq(Line(Entry))
        /\ Len(visible) <= Len(file)
    BY DEF ContractInv, ContractTypeOK, FileEndsWithVisible
  <2>2. Len(visible) \in Nat /\ Len(file) \in Nat /\ DOMAIN visible = 1 .. N
    BY <2>1, LenProperties
  <2>3. \A i \in 1 .. N : visible[i] \in Entry
    BY <2>1, ElementOfSeq
  <2> QED
    BY <2>1, <2>2, <2>3 DEF Entry
<1>2. /\ MessageLines(file) = d + 1 .. d + N
      /\ \A i \in 1 .. N : file[d + i].message = visible[i]
  BY <1>1, LenProperties DEF ContractInv, ContractTypeOK, FileEndsWithVisible
<1> HIDE DEF N, d
<1>3. \A i, j \in 1 .. N : i < j => visible[i].at < visible[j].at
  BY <1>1 DEF ContractInv, VisibleInOrder
<1>4. \A i, j \in 1 .. N : visible[i] = visible[j] => i = j
  BY <1>1, <1>3
<1>5. \A i, j \in 1 .. N : PgPrecedes(visible[i], visible[j]) <=> i < j
  BY <1>1, <1>3 DEF PgPrecedes
<1>6. \A k \in MessageLines(file) : \E i \in 1 .. N : k = d + i /\ file[k].message = visible[i]
  <2> SUFFICES ASSUME NEW k \in MessageLines(file)
               PROVE  \E i \in 1 .. N : k = d + i /\ file[k].message = visible[i]
    OBVIOUS
  <2>1. k - d \in 1 .. N /\ k = d + (k - d)
    BY <1>1, <1>2
  <2> QED
    BY <1>2, <2>1
<1>7. \A i \in 1 .. N : d + i \in MessageLines(file) /\ file[d + i].message = visible[i]
  BY <1>1, <1>2
<1>8. JsonListed(file) = {visible[i] : i \in 1 .. N}
  BY <1>6, <1>7 DEF JsonListed
<1>9. ASSUME NEW i \in 1 .. N, NEW j \in 1 .. N
      PROVE  JsonPrecedes(file, visible[i], visible[j]) <=> i < j
  <2>1. ASSUME i < j PROVE JsonPrecedes(file, visible[i], visible[j])
    <3>1. d + i < d + j
      BY <1>1, <2>1
    <3> QED
      BY <1>7, <3>1 DEF JsonPrecedes
  <2>2. ASSUME JsonPrecedes(file, visible[i], visible[j]) PROVE i < j
    <3>1. PICK k, l \in MessageLines(file) :
            k < l /\ file[k].message = visible[i] /\ file[l].message = visible[j]
      BY <2>2 DEF JsonPrecedes
    <3>2. k = d + i /\ l = d + j
      BY <1>4, <1>6, <3>1
    <3> QED
      BY <1>1, <3>1, <3>2
  <2> QED
    BY <2>1, <2>2
<1> QED
  BY <1>1, <1>4, <1>5, <1>8, <1>9 DEF ContractInv, RowsAreVisible

(* So many visible messages follow one.                                     *)
LEMMA VisibleFollow ==
  ASSUME ContractInv, NEW i \in DOMAIN visible
  PROVE  Cardinality({visible[j] : j \in i + 1 .. Len(visible)}) = Len(visible) - i
<1> DEFINE D == i + 1 .. Len(visible)
           S == {visible[j] : j \in D}
           f == [j \in D |-> visible[j]]
<1>1. i \in Nat /\ i <= Len(visible) /\ Len(visible) \in Nat /\ D \subseteq DOMAIN visible
  BY LenProperties DEF ContractInv, ContractTypeOK
<1>2. IsFiniteSet(D) /\ Cardinality(D) = Len(visible) - i
  <2>1. i + 1 \in Int /\ Len(visible) \in Int
    BY <1>1
  <2>2. IsFiniteSet(D) /\ Cardinality(D) = IF i + 1 > Len(visible) THEN 0 ELSE Len(visible) - (i + 1) + 1
    BY <2>1, FS_Interval
  <2> QED
    BY <1>1, <2>2
<1>3. f \in Surjection(D, S)
  BY Fun_IsSurj
<1>4. f \in Injection(D, S)
  <2>1. \A a, b \in D : f[a] = f[b] => a = b
    BY <1>1, ListsAgree
  <2>2. f \in [D -> S]
    OBVIOUS
  <2> QED
    BY <2>1, <2>2, Fun_IsInj
<1> HIDE DEF f, D
<1>5. Cardinality(S) = Cardinality(D)
  BY <1>2, <1>3, <1>4, FS_Surjection
<1> QED
  BY <1>2, <1>5 DEF D

(* The last messages are the last that are visible.                         *)
LEMMA LastAreVisible ==
  ASSUME ContractInv, NEW limit \in Nat
  PROVE  JsonList(file, limit) = LastVisible(limit) /\ PgList(rows, limit) = LastVisible(limit)
<1> DEFINE N == Len(visible)
           V == {visible[i] : i \in DOMAIN visible}
<1>1. N \in Nat /\ DOMAIN visible = 1 .. N
  BY LenProperties DEF ContractInv, ContractTypeOK
<1>2. ASSUME NEW i \in DOMAIN visible
      PROVE  /\ Cardinality({n \in V : JsonPrecedes(file, visible[i], n)}) = N - i
             /\ Cardinality({n \in V : PgPrecedes(visible[i], n)}) = N - i
  <2>1. \A j \in 1 .. N : i < j <=> j \in i + 1 .. N
    BY <1>1
  <2>2. \A j \in i + 1 .. N : j \in 1 .. N
    BY <1>1
  <2>3. /\ {n \in V : JsonPrecedes(file, visible[i], n)} = {visible[j] : j \in i + 1 .. N}
        /\ {n \in V : PgPrecedes(visible[i], n)} = {visible[j] : j \in i + 1 .. N}
    BY <1>1, <2>1, <2>2, ListsAgree
  <2> QED
    BY <2>3, VisibleFollow
<1>3. JsonList(file, limit) =
        {m \in V : Cardinality({n \in V : JsonPrecedes(file, m, n)}) < limit}
  BY ListsAgree DEF JsonList, LastOf
<1>4. PgList(rows, limit) =
        {m \in V : Cardinality({n \in V : PgPrecedes(m, n)}) < limit}
  BY ListsAgree DEF PgList, LastOf
<1>5. LastVisible(limit) = {visible[i] : i \in {j \in DOMAIN visible : N - j < limit}}
  BY <1>1 DEF LastVisible
<1>6. \A i \in DOMAIN visible :
        /\ visible[i] \in JsonList(file, limit) <=> N - i < limit
        /\ visible[i] \in PgList(rows, limit) <=> N - i < limit
  <2> HIDE DEF N
  <2>1. \A i \in DOMAIN visible : visible[i] \in JsonList(file, limit) <=> N - i < limit
    BY <1>2, <1>3
  <2>2. \A i \in DOMAIN visible : visible[i] \in PgList(rows, limit) <=> N - i < limit
    BY <1>2, <1>4
  <2> QED
    BY <2>1, <2>2
<1>7. /\ \A m \in JsonList(file, limit) : \E i \in DOMAIN visible : m = visible[i]
      /\ \A m \in PgList(rows, limit) : \E i \in DOMAIN visible : m = visible[i]
  BY <1>3, <1>4
<1> HIDE DEF N, V
<1>8. JsonList(file, limit) = LastVisible(limit)
  BY <1>5, <1>6, <1>7
<1>9. PgList(rows, limit) = LastVisible(limit)
  BY <1>5, <1>6, <1>7
<1> QED
  BY <1>8, <1>9

(* Both repositories keep the contract, for any number of calls.            *)
THEOREM ContractIsKept == ContractSpec => []ContractKept
<1>1. ContractInv /\ [ContractNext]_contractVars => ContractInv'
  <2>1. ASSUME ContractInv, ContractNext
        PROVE  ContractInv'
    BY <2>1, AppendKeepsContract, ClearKeepsContract DEF ContractNext
  <2>2. ASSUME ContractInv, UNCHANGED contractVars
        PROVE  ContractInv'
    BY <2>2 DEF contractVars, ContractInv, ContractTypeOK, VisibleInOrder,
       FileEndsWithVisible, RowsAreVisible
  <2> QED
    BY <2>1, <2>2
<1>2. ContractInv => ContractKept
  BY ListsAgree, LastAreVisible DEF ContractKept
<1> QED
  BY <1>1, <1>2, ContractInitInv, PTL DEF ContractSpec

===============================================================================
