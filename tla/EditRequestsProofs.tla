-------------------------- MODULE EditRequestsProofs --------------------------
(***************************************************************************)
(* Theorems about the edit protocol, for any number of clients, keys,      *)
(* external writers, restarts and cached answers.                          *)
(***************************************************************************)
EXTENDS EditRequests, SequenceTheorems, TLAPS

Editing == {"edit", "capture", "publish"}

\* Only an expected revision is a guarantee; a key is one while it is recorded.
Excused(c) == ~order[c].guarded /\ (order[c].key = None \/ c \in forgotten)
OnceIn(s, c) == \A i, j \in DOMAIN s : s[i] = c /\ s[j] = c => i = j
RecordOf(c) == \E i \in DOMAIN cache : cache[i].by = c /\ cache[i].key = order[c].key

\* What a call has opened is the document but for what was written since.
OpenedOK ==
    pc \in Editing => \A x \in Edits :
        /\ Has(doc, x) => Has(opened, x) \/ x \in racing
        /\ Has(opened, x) => Has(doc, x)

\* What a client was told, what is recorded and what is about to be, is done.
ToldOK ==
    /\ \A c \in Clients : Done(c) => Has(doc, c)
    /\ \A i \in DOMAIN cache : Has(doc, cache[i].by)
    /\ pc = "record" => Has(doc, caller)

\* A client that has sent nothing has no edit anywhere.
UnsentOK ==
    \A c \in Clients :
        /\ inbox[c] <= sent[c]
        /\ sent[c] = 0 => ~Has(doc, c) /\ (pc # "idle" => caller # c)

\* A client read its revision before its edit was made.
RevisionOK == \A c \in Clients : ~Has(expected[c], c)

\* The edit of a call that goes on is not yet in what it will extend.
FreshOK ==
    /\ pc = "guard" /\ ~order[caller].guarded => Excused(caller) \/ ~Has(doc, caller)
    /\ pc = "open" => Excused(caller) \/ ~Has(doc, caller)
    /\ pc \in Editing => Excused(caller) \/ ~Has(opened, caller)

\* The edit of a key that was not forgotten is recorded, or about to be.
RecordOK ==
    \A c \in Clients :
        ~order[c].guarded /\ ~Excused(c) /\ Has(doc, c) =>
            RecordOf(c) \/ (pc = "record" /\ caller = c)

SingleOK ==
    \A c \in Clients :
        /\ Excused(c) \/ OnceIn(doc, c)
        /\ pc \in Editing => Excused(c) \/ OnceIn(opened, c)

Busy == pc # "idle" => caller \in Clients

IInv ==
    /\ TypeOK
    /\ Busy
    /\ OpenedOK
    /\ ToldOK
    /\ UnsentOK
    /\ RevisionOK
    /\ FreshOK
    /\ RecordOK
    /\ SingleOK

-----------------------------------------------------------------------------
\* Sequences.

LEMMA HasAppend ==
  ASSUME NEW S, NEW s \in Seq(S), NEW x \in S, NEW y
  PROVE  Has(Append(s, x), y) <=> Has(s, y) \/ y = x
<1> DEFINE t == Append(s, x)
<1>1. DOMAIN t = 1 .. Len(s) + 1 /\ t[Len(s) + 1] = x /\ DOMAIN s = 1 .. Len(s)
      /\ \A k \in 1 .. Len(s) : t[k] = s[k]
  OBVIOUS
<1>2. \A i \in DOMAIN t : i \in DOMAIN s \/ i = Len(s) + 1
  BY <1>1
<1>3. \A i \in DOMAIN s : i \in DOMAIN t /\ t[i] = s[i]
  BY <1>1
<1>4. Len(s) + 1 \in DOMAIN t
  BY <1>1
<1> QED BY <1>1, <1>2, <1>3, <1>4, Zenon DEF Has

LEMMA OnceAppend ==
  ASSUME NEW S, NEW s \in Seq(S), NEW x \in S, NEW y,
         OnceIn(s, y), x = y => ~Has(s, y)
  PROVE  OnceIn(Append(s, x), y)
<1> DEFINE t == Append(s, x)
<1>1. SUFFICES ASSUME NEW i \in DOMAIN t, NEW j \in DOMAIN t, t[i] = y, t[j] = y
               PROVE  i = j
  BY DEF OnceIn
<1>2. DOMAIN t = 1 .. Len(s) + 1 /\ t[Len(s) + 1] = x /\ DOMAIN s = 1 .. Len(s)
      /\ \A k \in 1 .. Len(s) : t[k] = s[k]
  OBVIOUS
<1>3. CASE i \in DOMAIN s /\ j \in DOMAIN s
  BY <1>1, <1>2, <1>3 DEF OnceIn
<1>4. CASE i = Len(s) + 1 \/ j = Len(s) + 1
  <2>1. x = y
    BY <1>1, <1>2, <1>4
  <2>2. \A k \in DOMAIN s : s[k] # y
    BY <2>1 DEF Has
  <2> QED BY <1>1, <1>2, <1>4, <2>2
<1> QED BY <1>2, <1>3, <1>4

\* What eviction keeps: everything but the first entries.
LEMMA Evicts ==
  ASSUME NEW S, NEW s \in Seq(S), NEW k \in 0..Len(s)
  PROVE  /\ SubSeq(s, k + 1, Len(s)) \in Seq(S)
         /\ \A i \in DOMAIN SubSeq(s, k + 1, Len(s)) :
               \E j \in DOMAIN s : SubSeq(s, k + 1, Len(s))[i] = s[j]
         /\ \A j \in DOMAIN s : j > k =>
               \E i \in DOMAIN SubSeq(s, k + 1, Len(s)) : SubSeq(s, k + 1, Len(s))[i] = s[j]
<1> DEFINE t == SubSeq(s, k + 1, Len(s))
<1>1. \A i \in (k + 1) .. Len(s) : s[i] \in S
  OBVIOUS
<1>2. t \in Seq(S) /\ Len(t) = (IF k + 1 <= Len(s) THEN Len(s) - k ELSE 0)
      /\ \A i \in 1 .. Len(s) - k : t[i] = s[k + i]
  BY <1>1, SubSeqProperties, k + 1 \in Int, Len(s) \in Int
<1>3. Len(t) = Len(s) - k /\ DOMAIN t = 1 .. Len(s) - k
  BY <1>2
<1>4. ASSUME NEW i \in DOMAIN t PROVE \E j \in DOMAIN s : t[i] = s[j]
  BY <1>2, <1>3, <1>4, k + i \in DOMAIN s
<1>5. ASSUME NEW j \in DOMAIN s, j > k PROVE \E i \in DOMAIN t : t[i] = s[j]
  <2>1. j - k \in DOMAIN t
    BY <1>3, <1>5
  <2>2. t[j - k] = s[j]
    BY <1>2, <1>3, <2>1
  <2> QED BY <2>1, <2>2
<1> QED BY <1>2, <1>4, <1>5

-----------------------------------------------------------------------------
LEMMA InitIInv == Init => IInv
<1> SUFFICES ASSUME Init PROVE IInv
  OBVIOUS
<1> USE EditAssumption DEF Init
<1>1. TypeOK
  BY DEF TypeOK, Unread
<1>2. Busy /\ OpenedOK /\ ToldOK /\ UnsentOK
  BY DEF Busy, OpenedOK, ToldOK, UnsentOK, Done, Has, Editing
<1>3. RevisionOK
  <2>1. ASSUME NEW c \in Clients PROVE ~Has(Unread, c)
    <3>1. DOMAIN Unread = {1} /\ Unread[1] = None
      BY DEF Unread
    <3> QED BY <3>1 DEF Has
  <2> QED BY <2>1 DEF RevisionOK
<1>4. FreshOK /\ RecordOK
  BY DEF FreshOK, RecordOK, Has, Editing
<1>5. SingleOK
  <2>1. DOMAIN doc = {} /\ pc \notin Editing
    BY DEF Editing
  <2>2. \A c \in Clients : OnceIn(doc, c)
    BY <2>1 DEF OnceIn
  <2> QED BY <2>1, <2>2 DEF SingleOK
<1> QED BY <1>1, <1>2, <1>3, <1>4, <1>5 DEF IInv

-----------------------------------------------------------------------------
\* An answer is heard by its client alone, and only a good one makes it done.
LEMMA Replies ==
  ASSUME TypeOK, NEW c \in Clients, NEW how \in Answers, Reply(c, how)
  PROVE  /\ heard' \in [Clients -> SUBSET Answers]
         /\ pc' = "idle"
         /\ \A d \in Clients : d # c => Done(d)' = Done(d)
         /\ Done(c)' => Done(c) \/ how \in {"ok", "replayed"}
<1>1. PICK got \in {{}, {how}} : heard' = [heard EXCEPT ![c] = @ \cup got]
  BY DEF Reply
<1>2. heard' \in [Clients -> SUBSET Answers]
  BY <1>1 DEF TypeOK
<1>3. pc' = "idle"
  BY DEF Reply
<1>4. ASSUME NEW d \in Clients, d # c PROVE Done(d)' = Done(d)
  BY <1>1, <1>4 DEF Done, TypeOK
<1>5. Done(c)' => Done(c) \/ how \in {"ok", "replayed"}
  BY <1>1 DEF Done, TypeOK
<1> QED BY <1>2, <1>3, <1>4, <1>5

\* The caller is a client like any other.
LEMMA CallerReplies ==
  ASSUME NEW c \in Clients, c = caller, NEW how, Reply(caller, how)
  PROVE  Reply(c, how)
<1>1. PICK got \in {{}, {how}} : heard' = [heard EXCEPT ![caller] = @ \cup got]
  BY DEF Reply
<1>2. heard' = [heard EXCEPT ![c] = @ \cup got]
  BY <1>1, Zenon
<1>3. pc' = "idle"
  BY DEF Reply
<1> QED BY <1>1, <1>2, <1>3 DEF Reply

\* A step that ends a call without touching a file or a record.
LEMMA EndsCall ==
  ASSUME IInv, NEW c \in Clients, NEW how \in Answers, Reply(c, how),
         how \in {"ok", "replayed"} => Has(doc, c),
         pc # "record", UNCHANGED <<doc, order, expected, sent, cache, opened, captured, written,
                                    racing, forgotten, restarts>>,
         caller' \in Clients \cup {None},
         inbox' \in [Clients -> 0..MaxSends], \A d \in Clients : inbox'[d] <= inbox[d]
  PROVE  IInv'
<1> USE DEF IInv
<1>1. /\ heard' \in [Clients -> SUBSET Answers]
      /\ pc' = "idle"
      /\ \A d \in Clients : d # c => Done(d)' = Done(d)
      /\ Done(c)' => Done(c) \/ how \in {"ok", "replayed"}
  BY Replies
<1>2. TypeOK'
  BY <1>1 DEF TypeOK
<1>3. Busy' /\ OpenedOK' /\ FreshOK'
  BY <1>1 DEF Busy, OpenedOK, FreshOK, Editing
<1>4. ToldOK'
  BY <1>1 DEF ToldOK
<1>5. UnsentOK' /\ RevisionOK'
  BY <1>1 DEF UnsentOK, RevisionOK, TypeOK
<1>6. RecordOK'
  BY <1>1 DEF RecordOK, Excused, RecordOf
<1>7. SingleOK'
  BY <1>1 DEF SingleOK, Excused, Editing
<1> QED BY <1>2, <1>3, <1>4, <1>5, <1>6, <1>7

LEMMA SendIInv ==
  ASSUME IInv, NEW c \in Clients, Send(c)
  PROVE  IInv'
<1> USE DEF IInv
<1> USE DEF Send, server
<1>0. UNCHANGED <<doc, order, heard, pc, cache, caller, opened, captured, written, racing, forgotten, restarts>>
  OBVIOUS
<1>1. /\ sent' \in [Clients -> 0..MaxSends] /\ \A d \in Clients : sent'[d] = 0 => d # c /\ sent[d] = 0
      /\ \A d \in Clients : d # c => inbox'[d] = inbox[d]
  BY EditAssumption DEF TypeOK
<1>2. inbox' \in [Clients -> 0..MaxSends] /\ \A d \in Clients : inbox'[d] <= sent'[d]
  <2>1. \A d \in Clients : inbox[d] \in 0..MaxSends /\ sent[d] \in 0..MaxSends /\ inbox[d] <= sent[d]
    BY DEF TypeOK, UnsentOK
  <2>2. \A d \in Clients : /\ inbox'[d] = IF d = c THEN inbox[d] + 1 ELSE inbox[d]
                          /\ sent'[d] = IF d = c THEN sent[d] + 1 ELSE sent[d]
    BY DEF TypeOK
  <2>3. \A d \in Clients : inbox'[d] \in 0..MaxSends /\ inbox'[d] <= sent'[d]
    BY <2>1, <2>2, EditAssumption
  <2> QED BY <2>3 DEF TypeOK
<1>3. expected' \in [Clients -> Seq(Edits) \cup {Unread}]
  BY DEF TypeOK
<1>4. TypeOK'
  BY <1>0, <1>1, <1>2, <1>3 DEF TypeOK
<1>5. Busy' /\ OpenedOK' /\ FreshOK' /\ RecordOK' /\ SingleOK'
  BY <1>0 DEF Busy, OpenedOK, FreshOK, RecordOK, SingleOK, Excused, RecordOf, Editing
<1>6. ToldOK'
  BY <1>0 DEF ToldOK, Done
<1>7. UnsentOK'
  BY <1>0, <1>1, <1>2 DEF UnsentOK
<1>3a. RevisionOK'
  <2>1. ASSUME NEW d \in Clients PROVE ~Has(expected'[d], d)
    <3>1. expected'[d] = expected[d] \/ (d = c /\ sent[c] = 0 /\ expected'[d] = doc)
      BY DEF TypeOK
    <3> QED BY <3>1 DEF RevisionOK, UnsentOK
  <2> QED BY <2>1 DEF RevisionOK
<1> QED BY <1>4, <1>5, <1>6, <1>7, <1>3a

\* A call that goes on without touching a file or a record.
LEMMA GoesOn ==
  ASSUME IInv, pc' \in {"guard", "open", "edit", "capture", "publish"}, pc # "record",
         UNCHANGED <<doc, order, expected, sent, heard, cache, written, forgotten, restarts>>,
         inbox' \in [Clients -> 0..MaxSends], \A d \in Clients : inbox'[d] <= inbox[d],
         caller' \in Clients, sent[caller'] > 0,
         opened' \in Seq(Edits), captured' \in Seq(Edits), racing' \subseteq written,
         OpenedOK', FreshOK', SingleOK'
  PROVE  IInv'
<1> USE DEF IInv
<1>1. TypeOK' /\ Busy'
  BY DEF TypeOK, Busy
<1>2. ToldOK'
  BY DEF ToldOK, Done
<1>3. UnsentOK'
  <2>1. ASSUME NEW d \in Clients
        PROVE  inbox'[d] <= sent'[d] /\ (sent'[d] = 0 => ~Has(doc', d) /\ caller' # d)
    BY <2>1 DEF UnsentOK, TypeOK
  <2> QED BY <2>1 DEF UnsentOK
<1>4. RevisionOK'
  BY DEF RevisionOK
<1>5. RecordOK'
  BY DEF RecordOK, Excused, RecordOf
<1> QED BY <1>1, <1>2, <1>3, <1>4, <1>5

LEMMA EnterIInv ==
  ASSUME IInv, NEW c \in Clients, Enter(c)
  PROVE  IInv'
<1> USE DEF IInv
<1>1. /\ pc = "idle" /\ caller' = c /\ inbox[c] > 0
      /\ UNCHANGED <<doc, order, expected, sent, cache, opened, captured, written, racing, forgotten, restarts>>
  BY DEF Enter, client
<1>2. inbox' \in [Clients -> 0..MaxSends] /\ \A d \in Clients : inbox'[d] <= inbox[d]
  <2>1. inbox' = [inbox EXCEPT ![c] = @ - 1] /\ inbox \in [Clients -> 0..MaxSends]
    BY DEF Enter, TypeOK
  <2>2. \A d \in Clients : inbox'[d] \in 0..MaxSends /\ inbox'[d] <= inbox[d]
    BY <1>1, <2>1, EditAssumption
  <2> QED BY <2>1, <2>2
<1>3. CASE Recorded(order[c].key) = {} /\ pc' = "guard" /\ UNCHANGED heard
  <2>1. sent[c] > 0
    BY <1>1 DEF UnsentOK, TypeOK
  <2>2. OpenedOK' /\ SingleOK'
    BY <1>1, <1>3 DEF OpenedOK, SingleOK, Editing, Excused
  <2>3. ~RecordOf(c)
    BY <1>3 DEF RecordOf, Recorded
  <2>4. ~order[c].guarded => Excused(c) \/ ~Has(doc, c)
    BY <1>1, <2>3 DEF RecordOK
  <2>5. FreshOK'
    BY <1>1, <1>3, <2>4 DEF FreshOK, Excused, Editing
  <2> QED BY <1>1, <1>2, <1>3, <2>1, <2>2, <2>5, GoesOn DEF TypeOK
<1>4. CASE (\E i \in Recorded(order[c].key) : cache[i].by = c) /\ Reply(c, "replayed")
  <2>1. Has(doc, c)
    BY <1>4 DEF Recorded, ToldOK
  <2> QED BY <1>1, <1>2, <1>4, <2>1, EndsCall DEF Answers
<1>5. CASE Reply(c, "error")
  BY <1>1, <1>2, <1>5, EndsCall DEF Answers
<1> QED BY <1>3, <1>4, <1>5 DEF Enter

LEMMA CallingIInv ==
  ASSUME IInv, Guard \/ Edit \/ Capture \/ Open
  PROVE  IInv'
<1> USE DEF IInv
<1>1. pc # "idle" /\ pc # "record"
  BY DEF Guard, Edit, Capture, Open
<1>2. caller \in Clients /\ sent[caller] > 0
  BY <1>1 DEF Busy, UnsentOK, TypeOK
<1>3. inbox' = inbox /\ caller' = caller
  BY DEF Guard, Edit, Capture, Open, client, server
<1>3a. inbox' \in [Clients -> 0..MaxSends] /\ \A d \in Clients : inbox'[d] <= inbox[d]
  BY <1>3, EditAssumption DEF TypeOK
<1>4. CASE Guard
  <2>1. UNCHANGED <<doc, order, expected, sent, cache, opened, captured, written, racing, forgotten, restarts>>
    BY <1>4 DEF Guard, client, server
  <2>2. CASE Reply(caller, "blocked")
    <3>1. PICK c \in Clients : c = caller
      BY <1>2
    <3>2. Reply(c, "blocked")
      BY <2>2, <3>1, CallerReplies
    <3> QED BY <1>1, <1>2, <1>3, <1>3a, <2>1, <3>2, EndsCall DEF Answers
  <2>3. CASE pc' = "open" /\ UNCHANGED heard /\ (order[caller].guarded => doc = expected[caller])
    <3>1. Excused(caller) \/ ~Has(doc, caller)
      BY <1>2, <1>4, <2>3 DEF Guard, FreshOK, RevisionOK
    <3>2. FreshOK'
      BY <1>3, <2>1, <2>3, <3>1 DEF FreshOK, Excused, Editing
    <3>3. OpenedOK' /\ SingleOK'
      BY <2>1, <2>3 DEF OpenedOK, SingleOK, Editing, Excused
    <3> QED BY <1>1, <1>2, <1>3, <2>1, <2>3, <3>2, <3>3, GoesOn DEF TypeOK
  <2> QED BY <1>4, <2>2, <2>3 DEF Guard
<1>5. CASE Open
  <2>1. UNCHANGED <<doc, order, expected, sent, heard, cache, captured, written, forgotten, restarts>>
        /\ opened' = doc /\ racing' = {} /\ pc = "open" /\ pc' = "edit"
    BY <1>5 DEF Open, client
  <2>2. OpenedOK'
    BY <2>1 DEF OpenedOK
  <2>3. FreshOK'
    BY <1>3, <2>1 DEF FreshOK, Excused, Editing
  <2>4. SingleOK'
    BY <2>1 DEF SingleOK, Excused, Editing
  <2> QED BY <1>1, <1>2, <1>3, <2>1, <2>2, <2>3, <2>4, GoesOn DEF TypeOK
<1>6. CASE Edit
  <2>1. UNCHANGED <<doc, order, expected, sent, cache, opened, captured, written, racing, forgotten, restarts>>
    BY <1>6 DEF Edit, client, server
  <2>2. CASE Reply(caller, "error")
    <3>1. PICK c \in Clients : c = caller
      BY <1>2
    <3>2. Reply(c, "error")
      BY <2>2, <3>1, CallerReplies
    <3> QED BY <1>1, <1>2, <1>3, <1>3a, <2>1, <3>2, EndsCall DEF Answers
  <2>3. CASE pc' = "capture" /\ UNCHANGED heard
    <3>1. OpenedOK' /\ SingleOK' /\ FreshOK'
      BY <1>3, <1>6, <2>1, <2>3 DEF Edit, OpenedOK, SingleOK, FreshOK, Editing, Excused
    <3> QED BY <1>1, <1>2, <1>3, <2>1, <2>3, <3>1, GoesOn DEF TypeOK
  <2> QED BY <1>6, <2>2, <2>3 DEF Edit
<1>7. CASE Capture
  <2>1. UNCHANGED <<doc, order, expected, sent, heard, cache, opened, written, racing, forgotten, restarts>>
        /\ captured' = doc /\ pc = "capture" /\ pc' = "publish"
    BY <1>7 DEF Capture, client
  <2>2. OpenedOK' /\ SingleOK' /\ FreshOK'
    BY <1>3, <2>1 DEF OpenedOK, SingleOK, FreshOK, Editing, Excused
  <2> QED BY <1>1, <1>2, <1>3, <2>1, <2>2, GoesOn DEF TypeOK
<1> QED BY <1>4, <1>5, <1>6, <1>7

LEMMA PublishIInv ==
  ASSUME IInv, Publish
  PROVE  IInv'
<1> USE DEF IInv
<1>1. PICK c \in Clients : c = caller
  BY DEF Busy, Publish
<1>2. pc = "publish" /\ sent[c] > 0
      /\ UNCHANGED <<order, expected, sent, inbox, cache, caller, opened, captured, written, racing,
                     forgotten, restarts>>
  BY <1>1 DEF Publish, client, server, UnsentOK, TypeOK
<1>2a. inbox' \in [Clients -> 0..MaxSends] /\ \A d \in Clients : inbox'[d] <= inbox[d]
  BY <1>2, EditAssumption DEF TypeOK
<1>3. CASE Reply(caller, "error") /\ UNCHANGED doc
  <2>1. Reply(c, "error")
    BY <1>1, <1>3, CallerReplies
  <2> QED BY <1>1, <1>2, <1>3, <1>2a, <2>1, EndsCall DEF Answers
<1>4. CASE doc' = Append(opened, caller) /\ pc' = "record" /\ UNCHANGED heard
  <2>1. doc' \in Seq(Edits) /\ opened \in Seq(Edits) /\ c \in Edits
    BY <1>1, <1>4 DEF TypeOK, Edits
  <2>2. \A x : Has(doc', x) <=> Has(opened, x) \/ x = c
    BY <1>1, <1>4, <2>1, HasAppend
  <2>3. \A x \in Edits : Has(opened, x) => Has(doc, x)
    BY <1>2 DEF OpenedOK, Editing
  <2>4. \A d \in Clients : d \in Edits /\ d \notin racing
    BY EditAssumption DEF Edits, TypeOK
  <2>5. \A d \in Clients : Has(doc, d) => Has(doc', d)
    BY <1>2, <2>2, <2>4 DEF OpenedOK, Editing
  <2>6. TypeOK' /\ Busy'
    BY <1>2, <1>4, <2>1 DEF TypeOK, Busy
  <2>7. OpenedOK' /\ FreshOK'
    BY <1>4 DEF OpenedOK, FreshOK, Editing
  <2>8. ToldOK'
    <3>1. \A d \in Clients : Done(d)' => Has(doc', d)
      BY <1>4, <2>5 DEF ToldOK, Done
    <3>2. \A i \in DOMAIN cache : cache[i].by \in Clients
      <4>1. cache \in Seq([key : Keys, by : Clients])
        BY DEF TypeOK
      <4>2. \A i \in DOMAIN cache : cache[i] \in [key : Keys, by : Clients]
        BY <4>1, ElementOfSeq, LenProperties
      <4> QED BY <4>2
    <3>3. \A i \in DOMAIN cache : Has(doc', cache[i].by)
      BY <2>5, <3>2 DEF ToldOK
    <3> QED BY <1>1, <1>2, <2>2, <3>1, <3>3 DEF ToldOK
  <2>9. UnsentOK' /\ RevisionOK'
    <3>1. ASSUME NEW d \in Clients, sent[d] = 0 PROVE ~Has(doc', d) /\ d # c
      BY <1>1, <1>2, <2>2, <2>3, <2>4, <3>1 DEF UnsentOK
    <3> QED BY <1>1, <1>2, <3>1 DEF UnsentOK, RevisionOK
  <2>10. RecordOK'
    BY <1>1, <1>2, <1>4, <2>2, <2>3, <2>4 DEF RecordOK, Excused, RecordOf
  <2>11. SingleOK'
    <3>1. ASSUME NEW d \in Clients, ~Excused(d) PROVE OnceIn(doc', d)
      <4>1. OnceIn(opened, d)
        BY <1>2, <3>1 DEF SingleOK, Editing
      <4>2. c = d => ~Has(opened, d)
        BY <1>1, <1>2, <3>1 DEF FreshOK, Editing
      <4>3. OnceIn(Append(opened, c), d)
        BY <2>1, <4>1, <4>2, OnceAppend
      <4> QED BY <1>1, <1>4, <4>3
    <3> QED BY <1>2, <1>4, <3>1 DEF SingleOK, Excused, Editing
  <2> QED BY <2>6, <2>7, <2>8, <2>9, <2>10, <2>11
<1> QED BY <1>3, <1>4 DEF Publish

\* The files stay, the call ends, records go into forgotten or stay.
LEMMA Forgets ==
  ASSUME IInv, UNCHANGED <<doc, order, expected, sent, opened, captured, written, racing>>,
         TypeOK', pc' = "idle",
         \A d \in Clients : inbox'[d] <= sent'[d],
         forgotten \subseteq forgotten',
         \A i \in DOMAIN cache' : Has(doc, cache'[i].by),
         \A d \in Clients : Done(d)' => Has(doc, d),
         \A d \in Clients : ~order[d].guarded /\ ~Excused(d)' /\ Has(doc, d)
                             /\ (RecordOf(d) \/ (pc = "record" /\ caller = d)) => RecordOf(d)'
  PROVE  IInv'
<1> USE DEF IInv
<1>1. Busy' /\ OpenedOK' /\ FreshOK'
  BY DEF Busy, OpenedOK, FreshOK, Editing
<1>2. ToldOK'
  BY DEF ToldOK
<1>3. UnsentOK' /\ RevisionOK'
  BY DEF UnsentOK, RevisionOK
<1>4. \A d \in Clients : Excused(d) => Excused(d)'
  BY DEF Excused
<1>5. RecordOK'
  BY <1>4 DEF RecordOK
<1>6. SingleOK'
  BY <1>4 DEF SingleOK, Editing
<1> QED BY <1>1, <1>2, <1>3, <1>5, <1>6

LEMMA RecordIInv ==
  ASSUME IInv, Record
  PROVE  IInv'
<1> USE DEF IInv
<1>1. PICK c \in Clients : c = caller
  BY DEF Busy, Record
<1>2. pc = "record" /\ Reply(c, "ok") /\ Has(doc, c)
      /\ UNCHANGED <<doc, order, expected, sent, inbox, caller, opened, captured, written, racing, restarts>>
  BY <1>1, CallerReplies DEF Record, client, ToldOK
<1> DEFINE key == order[c].key
           new == [key |-> key, by |-> c]
           all == IF key = None THEN cache ELSE Append(cache, new)
           over == IF Len(all) > CacheSize THEN Len(all) - CacheSize ELSE 0
           R == [key : Keys, by : Clients]
<1>3. cache' = SubSeq(all, over + 1, Len(all))
      /\ forgotten' = forgotten \cup {all[i].by : i \in 1..over}
  BY <1>1 DEF Record
<1>4. cache \in Seq(R) /\ (key # None => new \in R)
  BY DEF TypeOK, Orders
<1>5. all \in Seq(R)
  <2>1. CASE key = None
    BY <1>4, <2>1
  <2>2. CASE key # None
    <3>1. Append(cache, new) \in Seq(R)
      BY <1>4, <2>2
    <3> QED BY <2>2, <3>1
  <2> QED BY <2>1, <2>2
<1>6. over \in 0..Len(all)
  BY <1>5, EditAssumption
<1>7. \A i \in DOMAIN all : all[i] \in R /\ Has(doc, all[i].by)
  <2>1. \A i \in DOMAIN all : all[i] \in R
    BY <1>5, ElementOfSeq, LenProperties
  <2>2. ASSUME NEW i \in DOMAIN all PROVE Has(doc, all[i].by)
    <3>1. (i \in DOMAIN cache /\ all[i] = cache[i]) \/ all[i] = new
      BY <1>4, <2>2
    <3> QED BY <1>2, <3>1 DEF ToldOK
  <2> QED BY <2>1, <2>2
<1> HIDE DEF all, over
<1>8. /\ cache' \in Seq(R)
      /\ \A i \in DOMAIN cache' : \E j \in DOMAIN all : cache'[i] = all[j]
      /\ \A j \in DOMAIN all : j > over => \E i \in DOMAIN cache' : cache'[i] = all[j]
  BY <1>3, <1>5, <1>6, Evicts
<1>9. forgotten' \subseteq Clients
  <2>1. \A i \in 1..over : i \in DOMAIN all
    BY <1>5, <1>6
  <2>2. \A i \in 1..over : all[i].by \in Clients
    BY <1>7, <2>1
  <2> QED BY <1>3, <2>2 DEF TypeOK
<1>10. /\ heard' \in [Clients -> SUBSET Answers] /\ pc' = "idle"
       /\ \A d \in Clients : d # c => Done(d)' = Done(d)
  BY <1>2, Replies DEF Answers
<1>11. TypeOK'
  BY <1>2, <1>8, <1>9, <1>10 DEF TypeOK
<1>12. \A d \in Clients : Done(d)' => Has(doc, d)
  BY <1>2, <1>10 DEF ToldOK
<1>13. \A i \in DOMAIN cache' : Has(doc, cache'[i].by)
  BY <1>7, <1>8
<1>14. ASSUME NEW d \in Clients, ~order[d].guarded, ~Excused(d)', RecordOf(d) \/ caller = d
       PROVE  RecordOf(d)'
  <2>1. d \notin forgotten' /\ order[d].key # None
    BY <1>2, <1>14 DEF Excused
  <2>2. PICK j \in DOMAIN all : all[j].by = d /\ all[j].key = order[d].key
    <3>1. CASE RecordOf(d)
      <4>1. PICK i \in DOMAIN cache : cache[i].by = d /\ cache[i].key = order[d].key
        BY <3>1 DEF RecordOf
      <4>2. i \in DOMAIN all /\ all[i] = cache[i]
        BY <1>4, <4>1 DEF all
      <4> QED BY <4>1, <4>2
    <3>2. CASE caller = d
      <4>1. all = Append(cache, new) /\ d = c
        BY <1>1, <2>1, <3>2 DEF all
      <4>2. Len(cache) + 1 \in DOMAIN all /\ all[Len(cache) + 1] = new
        BY <1>4, <4>1
      <4> QED BY <4>1, <4>2
    <3> QED BY <1>14, <3>1, <3>2
  <2>3. j > over
    <3>1. CASE j \in 1..over
      BY <1>3, <2>1, <2>2, <3>1
    <3> QED BY <1>5, <1>6, <3>1
  <2>4. PICK i \in DOMAIN cache' : cache'[i] = all[j]
    BY <1>8, <2>3
  <2> QED BY <1>2, <2>2, <2>4 DEF RecordOf
<1> QED BY <1>1, <1>2, <1>3, <1>10, <1>11, <1>12, <1>13, <1>14, Forgets DEF UnsentOK

LEMMA RecordFailsIInv ==
  ASSUME IInv, RecordFails
  PROVE  IInv'
<1> USE DEF IInv
<1>1. PICK c \in Clients : c = caller
  BY DEF Busy, RecordFails
<1>2. pc = "record" /\ Reply(c, "error") /\ forgotten' = forgotten \cup {c}
      /\ UNCHANGED <<doc, order, expected, sent, inbox, cache, caller, opened, captured, written, racing, restarts>>
  BY <1>1, CallerReplies DEF RecordFails, client
<1>3. /\ heard' \in [Clients -> SUBSET Answers] /\ pc' = "idle"
      /\ \A d \in Clients : Done(d)' => Done(d)
  BY <1>2, Replies DEF Answers
<1>4. TypeOK'
  BY <1>2, <1>3 DEF TypeOK
<1>5. \A d \in Clients : Excused(d)' \/ d # c \/ order[d].guarded
  BY <1>2 DEF Excused
<1> QED BY <1>1, <1>2, <1>3, <1>4, <1>5, Forgets DEF UnsentOK, ToldOK, RecordOf

LEMMA RestartIInv ==
  ASSUME IInv, Restart
  PROVE  IInv'
<1> USE DEF IInv
<1>1. /\ pc' = "idle" /\ cache' = <<>> /\ inbox' = [c \in Clients |-> 0] /\ restarts' = restarts + 1
      /\ restarts < MaxRestarts
      /\ forgotten' = forgotten \cup {cache[i].by : i \in DOMAIN cache}
                        \cup (IF pc = "record" THEN {caller} ELSE {})
      /\ UNCHANGED <<doc, order, expected, sent, heard, caller, opened, captured, written, racing>>
  BY DEF Restart, client
<1>2. \A i \in DOMAIN cache : cache[i].by \in Clients
  <2>1. cache \in Seq([key : Keys, by : Clients])
    BY DEF TypeOK
  <2>2. \A i \in DOMAIN cache : cache[i] \in [key : Keys, by : Clients]
    BY <2>1, ElementOfSeq, LenProperties
  <2> QED BY <2>2
<1>3. forgotten' \subseteq Clients
  BY <1>1, <1>2 DEF TypeOK, Busy
<1>4. TypeOK'
  BY <1>1, <1>3, EditAssumption DEF TypeOK
<1>5. \A d \in Clients : RecordOf(d) \/ (pc = "record" /\ caller = d) => d \in forgotten'
  BY <1>1 DEF RecordOf
<1>6. \A d \in Clients : inbox'[d] <= sent'[d]
  BY <1>1 DEF TypeOK
<1> QED BY <1>1, <1>4, <1>5, <1>6, Forgets DEF ToldOK, Done, Excused

LEMMA ExternalIInv ==
  ASSUME IInv, NEW e \in Externals, External(e)
  PROVE  IInv'
<1> USE DEF IInv
<1>1. /\ doc' = Append(doc, e) /\ written' = written \cup {e} /\ racing' = racing \cup {e}
      /\ UNCHANGED <<order, expected, sent, inbox, heard, cache, pc, caller, opened, captured, forgotten, restarts>>
  BY DEF External, client
<1>2. doc \in Seq(Edits) /\ e \in Edits /\ e \notin Clients
  BY EditAssumption DEF TypeOK, Edits
<1>3. doc' \in Seq(Edits) /\ \A x : Has(doc', x) <=> Has(doc, x) \/ x = e
  BY <1>1, <1>2, HasAppend
<1>4. \A d \in Clients : Has(doc', d) <=> Has(doc, d)
  BY <1>2, <1>3
<1>5. TypeOK' /\ Busy'
  BY <1>1, <1>3 DEF TypeOK, Busy
<1>6. OpenedOK'
  BY <1>1, <1>3 DEF OpenedOK
<1>7. ToldOK'
  BY <1>1, <1>3 DEF ToldOK, Done
<1>8. UnsentOK' /\ RevisionOK'
  BY <1>1, <1>4 DEF UnsentOK, RevisionOK
<1>9. FreshOK' /\ RecordOK'
  BY <1>1, <1>4 DEF FreshOK, RecordOK, Excused, RecordOf, Busy, Editing
<1>10. SingleOK'
  <2>1. ASSUME NEW d \in Clients, OnceIn(doc, d) PROVE OnceIn(doc', d)
    BY <1>1, <1>2, <2>1, OnceAppend
  <2> QED BY <1>1, <2>1 DEF SingleOK, Excused
<1> QED BY <1>5, <1>6, <1>7, <1>8, <1>9, <1>10

LEMMA NextIInv == IInv /\ [Next]_vars => IInv'
<1> SUFFICES ASSUME IInv, [Next]_vars PROVE IInv'
  OBVIOUS
<1>1. CASE UNCHANGED vars
  BY <1>1 DEF vars, IInv, TypeOK, Busy, OpenedOK, ToldOK, UnsentOK, RevisionOK, FreshOK, RecordOK,
              SingleOK, Done, Excused, RecordOf
<1>2. CASE Call
  BY <1>2, CallingIInv, PublishIInv, RecordIInv, RecordFailsIInv DEF Call
<1>3. CASE \E c \in Clients : Send(c) \/ Enter(c)
  BY <1>3, SendIInv, EnterIInv
<1>4. CASE Restart \/ \E e \in Externals : External(e)
  BY <1>4, RestartIInv, ExternalIInv
<1> QED BY <1>1, <1>2, <1>3, <1>4 DEF Next

LEMMA Invariance == Spec => []IInv
BY InitIInv, NextIInv, PTL DEF Spec

-----------------------------------------------------------------------------
\* Documents, requests, records and calls keep their types.
THEOREM TypeCorrect == Spec => []TypeOK
<1>1. IInv => TypeOK
  BY DEF IInv
<1> QED BY <1>1, Invariance, PTL

\* An edit is made at most once, however often it is sent, unless nothing but a
\* key protects it and the record of the key is lost.
THEOREM MadeOnce == Spec => []AppliedOnce
<1>1. IInv => AppliedOnce
  BY DEF IInv, SingleOK, AppliedOnce, Excused, OnceIn, Once, Times
<1> QED BY <1>1, Invariance, PTL

\* What a client was told is done stays in the document: none of the other calls
\* and no restart takes it out.
THEOREM AnswersKept == Spec => []AckedIsKept
<1>1. IInv => AckedIsKept
  BY DEF IInv, ToldOK, AckedIsKept
<1> QED BY <1>1, Invariance, PTL

\* A call drops nothing but what another program wrote while it was editing.
THEOREM LossBounded == Spec => OnlyRacingIsLost
<1>1. ASSUME IInv, [Next]_vars
      PROVE  [\A x \in Edits : Has(doc, x) /\ ~Has(doc', x) => x \in racing /\ Has(captured, x)]_vars
  <2>1. CASE UNCHANGED doc
    BY <2>1
  <2>2. CASE Publish /\ doc' # doc
    <3>1. pc = "publish" /\ doc = captured /\ doc' = Append(opened, caller) /\ caller \in Clients
      BY <1>1, <2>2 DEF Publish, IInv, Busy
    <3>2. opened \in Seq(Edits) /\ caller \in Edits
      BY <1>1, <3>1 DEF IInv, TypeOK, Edits
    <3>3. \A x : Has(doc', x) <=> Has(opened, x) \/ x = caller
      BY <3>1, <3>2, HasAppend
    <3> QED BY <1>1, <3>1, <3>3 DEF IInv, OpenedOK, Editing
  <2>3. CASE \E e \in Externals : External(e)
    <3>1. PICK e \in Externals : doc' = Append(doc, e)
      BY <2>3 DEF External
    <3>2. doc \in Seq(Edits) /\ e \in Edits
      BY <1>1 DEF IInv, TypeOK, Edits
    <3>3. \A x : Has(doc, x) => Has(doc', x)
      BY <3>1, <3>2, HasAppend
    <3> QED BY <3>3
  <2>4. doc' = doc \/ Publish \/ \E e \in Externals : External(e)
    BY <1>1 DEF Next, vars, Call, Send, Enter, Guard, Open, Edit, Capture, Record, RecordFails, Restart
  <2> QED BY <2>1, <2>2, <2>3, <2>4
<1> QED BY <1>1, Invariance, PTL DEF Spec, OnlyRacingIsLost
=============================================================================
