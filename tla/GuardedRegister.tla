---------------------------- MODULE GuardedRegister ----------------------------
(***************************************************************************)
(* What guarded publication (workspace.py) promises about one file: a      *)
(* candidate takes the place of the very version its guard captured, and   *)
(* is withdrawn if it is not confirmed; a version that was not captured is *)
(* put back; what a call does to the file besides is nothing at all.  What *)
(* it does not promise is said too: the two exchanges of a put-back leave  *)
(* a window in which a version saved over the candidate is lost.           *)
(***************************************************************************)
CONSTANTS
    Actors,     \* the calls of atomic_publish_bytes and remove_output
    Removers,   \* those of remove_output
    Edits,      \* what external writers write
    Initial,    \* the version the file has before anything happens
    Nothing     \* no file

VARIABLES
    cas,        \* the host exchanges two names atomically
    current,    \* the version at the name
    expected,   \* what each call captured
    taken,      \* what each call has taken from the name and not judged yet
    outcome,    \* "idle", "pending", "swapped", "installed", "restoring", or how it ended
    failing     \* the step of the call that puts something back has failed

vars == <<cas, current, expected, taken, outcome, failing>>

\* What a call puts at the name: its own bytes, or no file.
Candidate(a) == IF a \in Removers THEN Nothing ELSE a

Init ==
    /\ cas \in BOOLEAN
    /\ current \in {Initial, Nothing}
    /\ expected = [a \in Actors |-> Nothing]
    /\ taken = [a \in Actors |-> Nothing]
    /\ outcome = [a \in Actors |-> "idle"]
    /\ failing = [a \in Actors |-> FALSE]

\* A step may fail on the way, and then promises less.
Becomes(a, from, to) ==
    /\ outcome[a] \in from
    /\ outcome' = [outcome EXCEPT ![a] = to]
    /\ failing' \in {failing, [failing EXCEPT ![a] = TRUE]}
    /\ UNCHANGED cas

Takes(a, version) == taken' = [taken EXCEPT ![a] = version]

Capture(a) ==
    /\ Becomes(a, {"idle"}, "pending")
    /\ expected' = [expected EXCEPT ![a] = current]
    /\ UNCHANGED <<current, taken>>

\* The candidate takes the place of what is there, to be judged.
Displace(a) ==
    /\ cas
    /\ Becomes(a, {"pending"}, "swapped")
    /\ current' = Candidate(a)
    /\ Takes(a, current)
    /\ UNCHANGED expected

\* Only the version captured is replaced for good.
Keep(a) ==
    /\ Becomes(a, {"swapped"}, "installed")
    /\ taken[a] = expected[a] \/ failing'[a]
    /\ Takes(a, Nothing)
    /\ UNCHANGED <<current, expected>>

\* Any other version is put back, over whatever is at the name by then.
PutBack(a) ==
    /\ Becomes(a, {"swapped"}, "failed")
    /\ current' = taken[a]
    /\ Takes(a, Nothing)
    /\ UNCHANGED expected

\* A candidate is linked where there was no file; a host without the exchange
\* looks first and replaces afterwards.
Publish(a) ==
    /\ Becomes(a, {"pending"}, "installed")
    /\ cas => current = Nothing /\ expected[a] = Nothing
    /\ current' = Candidate(a)
    /\ UNCHANGED <<expected, taken>>

Confirm(a) ==
    /\ Becomes(a, {"installed"}, "ok")
    /\ UNCHANGED <<current, expected, taken>>

\* The candidate of a publication gives way to a copy of the captured version,
\* and is then looked at.
Exchange(a) ==
    /\ cas
    /\ a \notin Removers
    /\ Becomes(a, {"installed"}, "restoring")
    /\ current' = expected[a]
    /\ Takes(a, current)
    /\ UNCHANGED expected

Restored(a) ==
    /\ Becomes(a, {"restoring"}, "failed")
    /\ taken[a] = Candidate(a)
    /\ Takes(a, Nothing)
    /\ UNCHANGED <<current, expected>>

\* It was another version: that one goes back, over whatever is there by then.
Unrestore(a) ==
    /\ Becomes(a, {"restoring"}, "failed")
    /\ taken[a] # Candidate(a) \/ failing'[a]
    /\ current' = taken[a]
    /\ Takes(a, Nothing)
    /\ UNCHANGED expected

\* The file comes back where a removal has left none.  A candidate with nothing
\* to give way to is unlinked by name, and a host without the exchange replaces
\* by name: whatever is there goes with it.
Withdraw(a) ==
    /\ Becomes(a, {"installed"}, "failed")
    /\ cas => IF a \in Removers THEN current = Candidate(a) ELSE expected[a] = Nothing
    /\ current' = expected[a]
    /\ UNCHANGED <<expected, taken>>

\* A call that gives up leaves the name as it is, and its candidate there only
\* when a step back has failed.
Fail(a) ==
    /\ Becomes(a, {"idle", "pending", "swapped", "installed", "restoring"}, "failed")
    /\ cas /\ outcome[a] = "installed" => current # Candidate(a) \/ failing'[a]
    /\ outcome[a] \in {"swapped", "restoring"} => failing'[a]
    /\ Takes(a, Nothing)
    /\ UNCHANGED <<current, expected>>

\* A failure that only shows later.
Slip(a) ==
    /\ outcome[a] \in {"swapped", "restoring"}
    /\ failing' = [failing EXCEPT ![a] = TRUE]
    /\ UNCHANGED <<cas, current, expected, taken, outcome>>

\* A process that dies leaves the name as it is: nobody finishes its exchange.
Crash(a) ==
    /\ Becomes(a, {"pending", "swapped", "installed", "restoring", "failed"}, "crashed")
    /\ Takes(a, Nothing)
    /\ UNCHANGED <<current, expected>>

External ==
    /\ current' \in Edits
    /\ UNCHANGED <<cas, expected, taken, outcome, failing>>

Next ==
    \/ \E a \in Actors :
          \/ Capture(a) \/ Displace(a) \/ Keep(a) \/ PutBack(a) \/ Publish(a)
          \/ Confirm(a) \/ Exchange(a) \/ Restored(a) \/ Unrestore(a) \/ Withdraw(a)
          \/ Fail(a) \/ Slip(a) \/ Crash(a)
    \/ External

Spec == Init /\ [][Next]_vars
=============================================================================
