----------------------------- MODULE EditRequests -----------------------------
(***************************************************************************)
(* The content-edit tools (handlers/content_edit.py on the helpers of      *)
(* handlers/_shared.py) under clients that time out and send again, a      *)
(* server that restarts and external writers of the document.  A call      *)
(* replays a recorded answer, compares the expected revision, opens the    *)
(* document, edits it in memory, saves it and records its answer under its *)
(* idempotency key.  PUBLIC_MUTATION_LOCK lets one call run at a time.     *)
(***************************************************************************)
EXTENDS Naturals, Sequences

CONSTANTS
    Clients,
    Keys,           \* idempotency keys
    Externals,      \* what external writers add to the document
    CacheSize,      \* max_idempotency_cache_entries
    MaxSends,       \* bound on the times a client sends its request
    MaxRestarts,    \* bound on restarts of the server
    None

ASSUME EditAssumption ==
    /\ CacheSize \in Nat
    /\ MaxSends \in Nat
    /\ MaxRestarts \in Nat
    /\ None \notin Clients \cup Keys
    /\ Clients \cap Externals = {}

\* A document is the sequence of edits that made it, which is also its revision.
Edits == Clients \cup Externals
Orders == [key : Keys \cup {None}, guarded : BOOLEAN]
Answers == {"ok", "replayed", "blocked", "error"}

VARIABLES
    doc,
    order,      \* what each client asks for
    expected,   \* the revision it read
    sent,       \* the times it has sent its request
    inbox,      \* its requests that wait for the lock
    heard,      \* the answers it has got
    cache,      \* idempotency_cache, the oldest entry first
    pc, caller, \* the call that holds the lock
    opened,     \* the document it opened
    captured,   \* and the one its save is guarded by
    written,    \* what external writers have added
    racing,     \* and what of it since the call opened
    forgotten,  \* the clients whose edit was published and has no record
    restarts

vars == <<doc, order, expected, sent, inbox, heard, cache, pc, caller, opened, captured,
          written, racing, forgotten, restarts>>
client == <<order, expected, sent>>
server == <<cache, caller, opened, captured, written, racing, forgotten, restarts>>

Has(s, x) == \E i \in DOMAIN s : s[i] = x
Unread == <<None>>

TypeOK ==
    /\ doc \in Seq(Edits)
    /\ order \in [Clients -> Orders]
    /\ expected \in [Clients -> Seq(Edits) \cup {Unread}]
    /\ sent \in [Clients -> 0..MaxSends]
    /\ inbox \in [Clients -> 0..MaxSends]
    /\ heard \in [Clients -> SUBSET Answers]
    /\ cache \in Seq([key : Keys, by : Clients])
    /\ pc \in {"idle", "guard", "open", "edit", "capture", "publish", "record"}
    /\ caller \in Clients \cup {None}
    /\ opened \in Seq(Edits)
    /\ captured \in Seq(Edits)
    /\ written \subseteq Externals
    /\ racing \subseteq written
    /\ forgotten \subseteq Clients
    /\ restarts \in 0..MaxRestarts

Init ==
    /\ doc = <<>>
    /\ order \in [Clients -> Orders]
    /\ expected = [c \in Clients |-> Unread]
    /\ sent = [c \in Clients |-> 0]
    /\ inbox = [c \in Clients |-> 0]
    /\ heard = [c \in Clients |-> {}]
    /\ cache = <<>>
    /\ pc = "idle"
    /\ caller = None
    /\ opened = <<>>
    /\ captured = <<>>
    /\ written = {}
    /\ racing = {}
    /\ forgotten = {}
    /\ restarts = 0

Done(c) == heard[c] \cap {"ok", "replayed"} # {}

\* A client reads document_revision once, and sends the same arguments until it
\* hears that they are done; what it sent before may still be waiting.
Send(c) ==
    /\ ~Done(c)
    /\ sent[c] < MaxSends
    /\ sent' = [sent EXCEPT ![c] = @ + 1]
    /\ inbox' = [inbox EXCEPT ![c] = @ + 1]
    /\ expected' = [expected EXCEPT ![c] = IF order[c].guarded /\ sent[c] = 0 THEN doc ELSE @]
    /\ UNCHANGED <<doc, order, heard, pc, server>>

\* The answer arrives, or the client has hung up.
Reply(c, how) ==
    /\ \E got \in {{}, {how}} : heard' = [heard EXCEPT ![c] = @ \cup got]
    /\ pc' = "idle"

Recorded(key) == {i \in DOMAIN cache : cache[i].key = key}

\* _idempotency_replay: the same client sends the same arguments, another client
\* has others.
Enter(c) ==
    /\ pc = "idle"
    /\ inbox[c] > 0
    /\ inbox' = [inbox EXCEPT ![c] = @ - 1]
    /\ caller' = c
    /\ LET found == Recorded(order[c].key)
       IN  \/ found = {} /\ pc' = "guard" /\ UNCHANGED heard
           \/ (\E i \in found : cache[i].by = c) /\ Reply(c, "replayed")
           \/ (\E i \in found : cache[i].by # c) /\ Reply(c, "error")
    /\ UNCHANGED <<doc, client, cache, opened, captured, written, racing, forgotten, restarts>>

\* Bug: no revision is compared.
GuardNothing == pc = "guard" /\ pc' = "open" /\ UNCHANGED <<doc, client, inbox, heard, server>>

\* revision_mismatch_response reads the file.
Guard ==
    /\ pc = "guard"
    /\ IF order[caller].guarded /\ doc # expected[caller]
       THEN Reply(caller, "blocked")
       ELSE pc' = "open" /\ UNCHANGED heard
    /\ UNCHANGED <<doc, client, inbox, server>>

\* open_doc reads it again.
Open ==
    /\ pc = "open"
    /\ opened' = doc
    /\ racing' = {}
    /\ pc' = "edit"
    /\ UNCHANGED <<doc, client, inbox, heard, cache, caller, captured, written, forgotten, restarts>>

\* Nothing is saved of edits that fail.
Edit ==
    /\ pc = "edit"
    /\ \/ pc' = "capture" /\ UNCHANGED heard
       \/ Reply(caller, "error")
    /\ UNCHANGED <<doc, client, inbox, server>>

\* The save takes its guard only now.
Capture ==
    /\ pc = "capture"
    /\ captured' = doc
    /\ pc' = "publish"
    /\ UNCHANGED <<doc, client, inbox, heard, cache, caller, opened, written, racing, forgotten, restarts>>

\* Bug: whatever is there is replaced.
PublishBlindly ==
    /\ pc = "publish"
    /\ doc' = Append(opened, caller)
    /\ pc' = "record"
    /\ UNCHANGED <<client, inbox, heard, server>>

\* Bug: a save that was refused is not noticed.
PublishHopefully ==
    /\ pc = "publish"
    /\ doc' = IF doc = captured THEN Append(opened, caller) ELSE doc
    /\ pc' = "record"
    /\ UNCHANGED <<client, inbox, heard, server>>

Publish ==
    /\ pc = "publish"
    /\ IF doc = captured
       THEN doc' = Append(opened, caller) /\ pc' = "record" /\ UNCHANGED heard
       ELSE Reply(caller, "error") /\ UNCHANGED doc
    /\ UNCHANGED <<client, inbox, server>>

\* _idempotency_store drops the oldest entries that exceed the bound.
Record ==
    /\ pc = "record"
    /\ LET key == order[caller].key
           all == IF key = None THEN cache ELSE Append(cache, [key |-> key, by |-> caller])
           over == IF Len(all) > CacheSize THEN Len(all) - CacheSize ELSE 0
       IN  /\ cache' = SubSeq(all, over + 1, Len(all))
           /\ forgotten' = forgotten \cup {all[i].by : i \in 1..over}
    /\ Reply(caller, "ok")
    /\ UNCHANGED <<doc, client, inbox, caller, opened, captured, written, racing, restarts>>

\* The file is replaced, but what the answer needs cannot be read.
RecordFails ==
    /\ pc = "record"
    /\ forgotten' = forgotten \cup {caller}
    /\ Reply(caller, "error")
    /\ UNCHANGED <<doc, client, inbox, cache, caller, opened, captured, written, racing, restarts>>

\* The process dies with its cache and with what waited for the lock.
Restart ==
    /\ restarts < MaxRestarts
    /\ restarts' = restarts + 1
    /\ forgotten' = forgotten \cup {cache[i].by : i \in DOMAIN cache}
                        \cup (IF pc = "record" THEN {caller} ELSE {})
    /\ cache' = <<>>
    /\ inbox' = [c \in Clients |-> 0]
    /\ pc' = "idle"
    /\ UNCHANGED <<doc, client, heard, caller, opened, captured, written, racing>>

\* Somebody edits the document as it is in another program.
External(e) ==
    /\ e \notin written
    /\ doc' = Append(doc, e)
    /\ written' = written \cup {e}
    /\ racing' = racing \cup {e}
    /\ UNCHANGED <<client, inbox, heard, cache, pc, caller, opened, captured, forgotten, restarts>>

Call == Guard \/ Open \/ Edit \/ Capture \/ Publish \/ Record \/ RecordFails

Next ==
    \/ \E c \in Clients : Send(c) \/ Enter(c)
    \/ Call
    \/ Restart
    \/ \E e \in Externals : External(e)

Spec == Init /\ [][Next]_vars

-----------------------------------------------------------------------------
Times(c) == {i \in DOMAIN doc : doc[i] = c}
Once(c) == \A i, j \in Times(c) : i = j

\* However often a request is sent, its edit is in the document at most once: an
\* expected revision sees to it always, a key as long as its record is kept.
AppliedOnce ==
    \A c \in Clients :
        \/ Once(c)
        \/ ~order[c].guarded /\ (order[c].key = None \/ c \in forgotten)

\* An edit that a client was told of is in the document: no call of another
\* client, before it, after it or waiting, loses it.
AckedIsKept == \A c \in Clients : Done(c) => Has(doc, c)

\* A call drops nothing of the document but what an external writer added while
\* it was editing.
OnlyRacingIsLost ==
    [][\A x \in Edits : Has(doc, x) /\ ~Has(doc', x) => x \in racing /\ Has(captured, x)]_vars
=============================================================================
