------------------------------- MODULE Stream -------------------------------
(* What the watch stream and the write stream of the Firestore client have   *)
(* in common: they start with credentials, back off after an error, stop     *)
(* when idle, and drop what arrives for an attempt that was closed.  A       *)
(* stream is part of a record                                                *)
(*                                                                           *)
(*   stream  its state; "Open" stands for Open and Healthy, told apart only  *)
(*           by what they do to a rejected token                             *)
(*   closes  how often it was closed                                         *)
(*   tokens  attempts whose credentials are still to come, by "closes"       *)
(*   backoff, idle   whether these timers run                                *)
(*   up, down        the two wires of an open stream                         *)
(*   broken  names of the HARD_ASSERTs that failed and ended the app         *)
(*                                                                           *)
(* and its operations are operators from records to records.                 *)
EXTENDS Integers, Sequences

Check(s, holds, name) ==
  IF holds THEN s ELSE [s EXCEPT !.broken = @ \cup {name}]

IsOpen(s)    == s.stream = "Open"
IsStarted(s) == s.stream \in {"Starting", "Backoff", "Open"}

RequestCredentials(s) == [s EXCEPT !.tokens = @ \cup {s.closes}]

Start(s) ==
  IF s.stream = "Error" THEN [s EXCEPT !.stream = "Backoff", !.backoff = TRUE]
  ELSE RequestCredentials([Check(s, s.stream = "Initial", "already started")
                             EXCEPT !.stream = "Starting"])

\* Close, up to what it tells its delegate: see NotifyStreamClose.
TearDown(s, graceful) ==
  [Check(s, IsStarted(s), "closing a stopped stream")
     EXCEPT !.idle = FALSE, !.backoff = FALSE, !.closes = @ + 1,
            !.stream = IF graceful THEN "Initial" ELSE "Error",
            !.up = <<>>, !.down = <<>>]

InhibitBackoff(s) ==
  [Check(s, ~IsStarted(s), "inhibiting a started stream")
     EXCEPT !.stream = "Initial"]

MarkIdle(s) == IF IsOpen(s) THEN [s EXCEPT !.idle = TRUE] ELSE s

\* Mutant of Send: an idle check that is not cancelled by what is written.
SendIdle(s, requests) ==
  [Check(s, IsOpen(s), "writing while not open") EXCEPT !.up = @ \o requests]

Send(s, requests) ==
  [Check(s, IsOpen(s), "writing while not open")
     EXCEPT !.idle = FALSE, !.up = @ \o requests]

\* Start's own assertion, when the backoff is over.
Resume(s) ==
  Start([Check(s, s.stream = "Backoff", "backoff elapsed late")
           EXCEPT !.backoff = FALSE, !.stream = "Initial"])

\* gRPC reports a stream with both credentials open at once.
OnStreamStart(s) ==
  [Check(s, s.stream = "Starting", "still starting") EXCEPT !.stream = "Open"]

=============================================================================
