---------------------------- MODULE SignUpProofs ----------------------------
(***************************************************************************)
(* Theorems about SignUp for any devices, addresses, calls and restarts.   *)
(***************************************************************************)
EXTENDS SignUp, SequenceTheorems, TLAPS

SignUpInv == TypeOK /\ OneProfileWrite

(* A call in one of the states of Call has a device and an address.        *)
LEMMA CallTyped ==
  ASSUME TypeOK, NEW c \in Calls, call[c] # Unused
  PROVE  call[c] \in Call
BY DEF TypeOK

LEMMA StateTyped ==
  ASSUME TypeOK, NEW c \in Calls, call[c].state # "unused"
  PROVE  call[c] \in Call
<1>1. call[c] # Unused
  BY DEF Unused
<1> QED BY <1>1, CallTyped

LEMMA ProfileTyped ==
  ASSUME TypeOK, NEW m \in Emails, profile[m] # NoWrite
  PROVE  profile[m] \in ProfileWrite
BY DEF TypeOK

(* What was written for an address was written for an account.             *)
LEMMA WrittenHasAccount ==
  ASSUME OneProfileWrite, NEW m \in Emails, Written(m)
  PROVE  m \in accounts
BY DEF OneProfileWrite

(* Tearing down the streams leaves every profile write where it is.        *)
LEMMA StreamTornDownKeeps ==
  ASSUME TypeOK, NEW d \in Devices
  PROVE  /\ StreamTornDown(d) \in [Emails -> ProfileWrite \cup {NoWrite}]
         /\ \A m \in Emails : StreamTornDown(d)[m] # NoWrite <=> profile[m] # NoWrite
         /\ \A m \in Emails :
              \/ StreamTornDown(d)[m].state = profile[m].state
              \/ profile[m].state = "applied" /\ StreamTornDown(d)[m].state = "stored"
<1>1. ASSUME NEW m \in Emails
      PROVE  /\ StreamTornDown(d)[m] \in ProfileWrite \cup {NoWrite}
             /\ StreamTornDown(d)[m] # NoWrite <=> profile[m] # NoWrite
             /\ \/ StreamTornDown(d)[m].state = profile[m].state
                \/ profile[m].state = "applied" /\ StreamTornDown(d)[m].state = "stored"
  <2>1. CASE At(d, m) /\ profile[m].state = "applied"
    <3>1. profile[m] \in ProfileWrite
      BY <2>1, ProfileTyped DEF At
    <3>2. StreamTornDown(d)[m] = [profile[m] EXCEPT !.state = "stored"]
      BY <2>1 DEF StreamTornDown
    <3> QED BY <2>1, <3>1, <3>2 DEF ProfileWrite, NoWrite
  <2>2. CASE ~(At(d, m) /\ profile[m].state = "applied")
    <3>1. StreamTornDown(d)[m] = profile[m]
      BY <2>2 DEF StreamTornDown
    <3> QED BY <3>1 DEF TypeOK
  <2> QED BY <2>1, <2>2
<1>2. StreamTornDown(d) = [m \in Emails |-> StreamTornDown(d)[m]]
  BY DEF StreamTornDown
<1>3. StreamTornDown(d) \in [Emails -> ProfileWrite \cup {NoWrite}]
  BY <1>1, <1>2
<1>4. \A m \in Emails : StreamTornDown(d)[m] # NoWrite <=> profile[m] # NoWrite
  BY <1>1
<1>5. \A m \in Emails :
        \/ StreamTornDown(d)[m].state = profile[m].state
        \/ profile[m].state = "applied" /\ StreamTornDown(d)[m].state = "stored"
  BY <1>1
<1> QED BY <1>3, <1>4, <1>5

(* The completion of a call in one of the later states.                    *)
LEMMA CallChanges ==
  ASSUME TypeOK, NEW c \in Calls, call[c].state # "unused",
         NEW x \in {"sent", "orphaned", "created", "failed", "over"},
         call' = [call EXCEPT ![c].state = x]
  PROVE  /\ call' \in [Calls -> Call \cup {Unused}]
         /\ call'[c].state = x
         /\ call'[c].email = call[c].email
         /\ \A b \in Calls : b # c => call'[b] = call[b]
<1>1. call[c] \in Call
  BY StateTyped
<1>2. call \in [Calls -> Call \cup {Unused}]
  BY DEF TypeOK
<1>3. [call[c] EXCEPT !.state = x] \in Call
  BY <1>1 DEF Call
<1> QED BY <1>1, <1>2, <1>3 DEF Call

(* A device's worker queue with one more entry behind the others.          *)
LEMMA AppendTyped ==
  ASSUME TypeOK, NEW d \in Devices, NEW u \in Emails \cup {Nobody}
  PROVE  /\ [enqueued EXCEPT ![d] = Append(@, u)]
               \in [Devices -> Seq(Emails \cup {Nobody})]
         /\ Len(enqueued[d]) \in Nat
         /\ Len(Append(enqueued[d], u)) = Len(enqueued[d]) + 1
         /\ \A i \in 1 .. Len(enqueued[d]) + 1 :
              Append(enqueued[d], u)[i] = IF i = Len(enqueued[d]) + 1
                                          THEN u ELSE enqueued[d][i]
<1>1. enqueued[d] \in Seq(Emails \cup {Nobody})
  BY DEF TypeOK
<1>2. Append(enqueued[d], u) \in Seq(Emails \cup {Nobody})
  BY <1>1, AppendProperties
<1>3. Len(enqueued[d]) \in Nat
  BY <1>1, LenProperties
<1>4. Len(Append(enqueued[d], u)) = Len(enqueued[d]) + 1
  BY <1>1, AppendProperties
<1>5. ASSUME NEW i \in 1 .. Len(enqueued[d]) + 1
      PROVE  Append(enqueued[d], u)[i] = IF i = Len(enqueued[d]) + 1
                                         THEN u ELSE enqueued[d][i]
  BY <1>1, <1>3
<1> QED BY <1>2, <1>3, <1>4, <1>5 DEF TypeOK

(* ... and with the front taken off.                                       *)
LEMMA TailTyped ==
  ASSUME TypeOK, NEW d \in Devices, enqueued[d] # << >>
  PROVE  /\ [enqueued EXCEPT ![d] = Tail(@)] \in [Devices -> Seq(Emails \cup {Nobody})]
         /\ Head(enqueued[d]) \in Emails \cup {Nobody}
         /\ Head(enqueued[d]) = enqueued[d][1]
         /\ Len(enqueued[d]) \in Nat \ {0}
         /\ Len(Tail(enqueued[d])) = Len(enqueued[d]) - 1
         /\ \A i \in 1 .. Len(enqueued[d]) - 1 : Tail(enqueued[d])[i] = enqueued[d][i + 1]
<1>1. enqueued[d] \in Seq(Emails \cup {Nobody})
  BY DEF TypeOK
<1>2. /\ Tail(enqueued[d]) \in Seq(Emails \cup {Nobody})
      /\ Head(enqueued[d]) \in Emails \cup {Nobody}
      /\ Len(Tail(enqueued[d])) = Len(enqueued[d]) - 1
      /\ \A i \in 1 .. Len(Tail(enqueued[d])) : Tail(enqueued[d])[i] = enqueued[d][i + 1]
  BY <1>1, HeadTailProperties
<1>3. Len(enqueued[d]) \in Nat /\ Len(enqueued[d]) # 0
  BY <1>1, EmptySeq, LenProperties
<1>4. Head(enqueued[d]) = enqueued[d][1]
  BY <1>1
<1> QED BY <1>2, <1>3, <1>4 DEF TypeOK
----------------------------------------------------------------------------
(* The types and the one profile write, step by step.                      *)

(* Nothing new is created, enqueued or written, and accounts stay.         *)
LEMMA NothingNew ==
  ASSUME OneProfileWrite, accounts \subseteq accounts',
         \A c \in Calls, m \in Emails : Creating(c, m)' => Creating(c, m),
         \A d \in Devices : \A i \in Waiting(d)' :
           enqueued'[d][i] \in Emails => i \in Waiting(d) /\ enqueued'[d][i] = enqueued[d][i],
         \A m \in Emails : Written(m)' => Written(m)
  PROVE  OneProfileWrite'
<1> SUFFICES ASSUME NEW m \in Emails
    PROVE  (/\ \A b, c \in Calls : Creating(b, m) /\ Creating(c, m) => b = c
            /\ \A d, e \in Devices : \A i \in Waiting(d), j \in Waiting(e) :
                 enqueued[d][i] = m /\ enqueued[e][j] = m => d = e /\ i = j
            /\ SomeCreating(m) => ~SomeEnqueued(m) /\ ~Written(m)
            /\ SomeEnqueued(m) => ~Written(m)
            /\ SomeCreating(m) \/ SomeEnqueued(m) \/ Written(m) => m \in accounts)'
  BY DEF OneProfileWrite
<1>1. \A d \in Devices : \A i \in Waiting(d)' :
        enqueued'[d][i] = m => i \in Waiting(d) /\ enqueued[d][i] = m
  OBVIOUS
<1>2. SomeCreating(m)' => SomeCreating(m)
  BY DEF SomeCreating
<1>3. SomeEnqueued(m)' => SomeEnqueued(m)
  BY <1>1 DEF SomeEnqueued
<1>4. (\A b, c \in Calls : Creating(b, m) /\ Creating(c, m) => b = c)'
  BY DEF OneProfileWrite
<1>5. (\A d, e \in Devices : \A i \in Waiting(d), j \in Waiting(e) :
         enqueued[d][i] = m /\ enqueued[e][j] = m => d = e /\ i = j)'
  BY <1>1 DEF OneProfileWrite
<1>6. (SomeCreating(m) => ~SomeEnqueued(m) /\ ~Written(m))'
  BY <1>2, <1>3 DEF OneProfileWrite
<1>7. (SomeEnqueued(m) => ~Written(m))'
  BY <1>3 DEF OneProfileWrite
<1>8. (SomeCreating(m) \/ SomeEnqueued(m) \/ Written(m) => m \in accounts)'
  BY <1>2, <1>3 DEF OneProfileWrite
<1> QED BY <1>4, <1>5, <1>6, <1>7, <1>8

LEMMA TappedStep ==
  ASSUME SignUpInv, NEW c \in Calls, NEW d \in Devices, NEW m \in Emails,
         SignUpButtonTapped(c, d, m)
  PROVE  SignUpInv'
<1> USE DEF SignUpInv, SignUpButtonTapped
<1>1. [state |-> "sent", device |-> d, email |-> m] \in Call
  BY DEF Call
<1>2. TypeOK'
  BY <1>1 DEF TypeOK
<1>3. \A b \in Calls, n \in Emails : Creating(b, n)' => Creating(b, n)
  BY DEF Creating, TypeOK
<1>4. OneProfileWrite'
  BY <1>3, NothingNew DEF Waiting, Written
<1> QED BY <1>2, <1>4

LEMMA CreateUserStep ==
  ASSUME SignUpInv, NEW c \in Calls, CreateUser(c)
  PROVE  SignUpInv'
<1> USE DEF SignUpInv
<1>1. call[c] \in Call /\ call[c].state # "unused" /\ TypeOK
  BY StateTyped DEF CreateUser
<1>2. PICK x \in {"sent", "orphaned", "created", "failed", "over"} :
        x = CASE call[c].state = "orphaned" -> "over"
              [] call[c].email \in accounts -> "failed"
              [] OTHER                      -> "created"
  OBVIOUS
<1>3. /\ call' = [call EXCEPT ![c].state = x]
      /\ accounts' = accounts \cup {call[c].email}
      /\ cut' = IF call[c].state = "orphaned" THEN cut \cup (accounts' \ accounts) ELSE cut
      /\ UNCHANGED <<profiles, enqueued, user, profile, screen, welcomed, restarts>>
  BY <1>2 DEF CreateUser
<1>4. PICK m \in Emails : m = call[c].email
  BY <1>1 DEF Call
<1>5. x = "created" => m \notin accounts
  BY <1>2, <1>4
<1>6. /\ call' \in [Calls -> Call \cup {Unused}]
      /\ call'[c].state = x
      /\ call'[c].email = call[c].email
      /\ \A b \in Calls : b # c => call'[b] = call[b]
  BY <1>1, <1>2, <1>3, CallChanges
<1>7. accounts' = accounts \cup {m} /\ accounts' \subseteq Emails
  BY <1>3, <1>4 DEF TypeOK
<1>8. TypeOK'
  BY <1>3, <1>6, <1>7 DEF TypeOK
<1>9. CASE x # "created"
  <2>1. \A b \in Calls, n \in Emails : Creating(b, n)' => Creating(b, n)
    BY <1>6, <1>9 DEF Creating
  <2> QED BY <1>3, <1>7, <1>8, <2>1, NothingNew DEF Waiting, Written
<1>10. CASE x = "created"
  <2>1. m \notin accounts
    BY <1>5, <1>10
  <2>2. \A n \in Emails : n # m => \A b \in Calls : Creating(b, n)' <=> Creating(b, n)
    BY <1>4, <1>6 DEF Creating
  <2>3. ~SomeCreating(m) /\ ~SomeEnqueued(m) /\ ~Written(m)
    BY <1>4, <2>1 DEF OneProfileWrite
  <2>4. \A b \in Calls : Creating(b, m)' => b = c
    BY <1>6, <2>3 DEF Creating, SomeCreating
  <2>5. \A n \in Emails : SomeEnqueued(n)' = SomeEnqueued(n) /\ Written(n)' = Written(n)
    BY <1>3 DEF SomeEnqueued, Waiting, Written
  <2>6. \A n \in Emails : n # m => SomeCreating(n)' = SomeCreating(n)
    BY <2>2 DEF SomeCreating
  <2> SUFFICES ASSUME NEW n \in Emails
      PROVE  (/\ \A b, e \in Calls : Creating(b, n) /\ Creating(e, n) => b = e
              /\ \A d, e \in Devices : \A i \in Waiting(d), j \in Waiting(e) :
                   enqueued[d][i] = n /\ enqueued[e][j] = n => d = e /\ i = j
              /\ SomeCreating(n) => ~SomeEnqueued(n) /\ ~Written(n)
              /\ SomeEnqueued(n) => ~Written(n)
              /\ SomeCreating(n) \/ SomeEnqueued(n) \/ Written(n) => n \in accounts)'
    BY <1>8 DEF OneProfileWrite
  <2>7. (\A b, e \in Calls : Creating(b, n) /\ Creating(e, n) => b = e)'
    <3>1. CASE n = m
      BY <2>4, <3>1
    <3>2. CASE n # m
      BY <2>2, <3>2 DEF OneProfileWrite
    <3> QED BY <3>1, <3>2
  <2>8. (\A d, e \in Devices : \A i \in Waiting(d), j \in Waiting(e) :
           enqueued[d][i] = n /\ enqueued[e][j] = n => d = e /\ i = j)'
    BY <1>3 DEF OneProfileWrite, Waiting
  <2>9. (SomeCreating(n) => ~SomeEnqueued(n) /\ ~Written(n))'
    BY <2>3, <2>5, <2>6 DEF OneProfileWrite
  <2>10. (SomeEnqueued(n) => ~Written(n))'
    BY <2>5 DEF OneProfileWrite
  <2>11. (SomeCreating(n) \/ SomeEnqueued(n) \/ Written(n) => n \in accounts)'
    BY <1>7, <2>5, <2>6 DEF OneProfileWrite
  <2> QED BY <2>7, <2>8, <2>9, <2>10, <2>11
<1> QED BY <1>9, <1>10

(* A call that ends, or whose account is not reported, leaves the rest.    *)
LEMMA CallEnds ==
  ASSUME SignUpInv, NEW c \in Calls, call[c].state # "unused",
         NEW x \in {"failed", "over"}, call' = [call EXCEPT ![c].state = x],
         UNCHANGED <<accounts, enqueued, profile>>
  PROVE  /\ call' \in [Calls -> Call \cup {Unused}]
         /\ OneProfileWrite'
<1> USE DEF SignUpInv
<1>1. /\ call' \in [Calls -> Call \cup {Unused}]
      /\ call'[c].state = x
      /\ \A b \in Calls : b # c => call'[b] = call[b]
  BY CallChanges
<1>2. \A b \in Calls, m \in Emails : Creating(b, m)' => Creating(b, m)
  BY <1>1 DEF Creating
<1> QED BY <1>1, <1>2, NothingNew DEF Waiting, Written

LEMMA CreateUserFailsStep ==
  ASSUME SignUpInv, NEW c \in Calls, CreateUserFails(c)
  PROVE  SignUpInv'
<1>1. call[c] \in Call /\ call[c].state # "unused"
  BY StateTyped DEF CreateUserFails, SignUpInv
<1>2. call' \in [Calls -> Call \cup {Unused}] /\ OneProfileWrite'
  BY <1>1, CallEnds DEF CreateUserFails
<1>3. cut' \subseteq accounts
  <2>1. CASE call[c].state = "created"
    <3>1. Creating(c, call[c].email) /\ call[c].email \in Emails
      BY <1>1, <2>1 DEF Creating, Call
    <3>2. call[c].email \in accounts
      BY <3>1 DEF OneProfileWrite, SignUpInv, SomeCreating
    <3> QED BY <2>1, <3>2 DEF CreateUserFails, SignUpInv, TypeOK
  <2>2. CASE call[c].state # "created"
    BY <2>2 DEF CreateUserFails, SignUpInv, TypeOK
  <2> QED BY <2>1, <2>2
<1> QED BY <1>2, <1>3 DEF CreateUserFails, SignUpInv, TypeOK

LEMMA ReportErrorStep ==
  ASSUME SignUpInv, NEW c \in Calls, ReportError(c)
  PROVE  SignUpInv'
<1>1. call[c].state # "unused"
  BY DEF ReportError
<1>2. call' \in [Calls -> Call \cup {Unused}] /\ OneProfileWrite'
  BY <1>1, CallEnds DEF ReportError
<1> QED BY <1>2 DEF ReportError, SignUpInv, TypeOK

(* The one profile write moves from the answer to the worker queue.        *)
LEMMA CreateUserAnswersStep ==
  ASSUME SignUpInv, NEW c \in Calls, CreateUserAnswers(c)
  PROVE  SignUpInv'
<1> USE DEF SignUpInv
<1>1. call[c] \in Call /\ call[c].state = "created"
  BY StateTyped DEF CreateUserAnswers
<1>2. PICK m \in Emails, d \in Devices : m = call[c].email /\ d = call[c].device
  BY <1>1 DEF Call
<1>3. /\ call' = [call EXCEPT ![c].state = "over"]
      /\ enqueued' = [enqueued EXCEPT ![d] = Append(@, m)]
      /\ UNCHANGED <<accounts, profiles, user, profile, screen, welcomed, cut, restarts>>
  BY <1>2 DEF CreateUserAnswers
<1>4. /\ call' \in [Calls -> Call \cup {Unused}]
      /\ call'[c].state = "over"
      /\ \A b \in Calls : b # c => call'[b] = call[b]
  BY <1>1, <1>3, CallChanges
<1>5. /\ enqueued' \in [Devices -> Seq(Emails \cup {Nobody})]
      /\ Len(enqueued[d]) \in Nat
      /\ Len(Append(enqueued[d], m)) = Len(enqueued[d]) + 1
      /\ \A i \in 1 .. Len(enqueued[d]) + 1 :
           Append(enqueued[d], m)[i] = IF i = Len(enqueued[d]) + 1
                                       THEN m ELSE enqueued[d][i]
  BY <1>3, AppendTyped
<1>6. TypeOK'
  BY <1>3, <1>4, <1>5 DEF TypeOK
<1>7. enqueued'[d] = Append(enqueued[d], m) /\ \A e \in Devices : e # d => enqueued'[e] = enqueued[e]
  BY <1>3 DEF TypeOK
<1>8. \A e \in Devices : \A i \in Waiting(e)' :
        \/ i \in Waiting(e) /\ enqueued'[e][i] = enqueued[e][i]
        \/ e = d /\ i = Len(enqueued[d]) + 1 /\ enqueued'[e][i] = m
  <2> SUFFICES ASSUME NEW e \in Devices, NEW i \in Waiting(e)'
      PROVE  \/ i \in Waiting(e) /\ enqueued'[e][i] = enqueued[e][i]
             \/ e = d /\ i = Len(enqueued[d]) + 1 /\ enqueued'[e][i] = m
    OBVIOUS
  <2>1. CASE e # d
    BY <1>7, <2>1 DEF Waiting
  <2>2. CASE e = d
    BY <1>5, <1>7, <2>2 DEF Waiting
  <2> QED BY <2>1, <2>2
<1>9. Creating(c, m)
  BY <1>1, <1>2 DEF Creating
<1>10. ~SomeEnqueued(m) /\ ~Written(m) /\ m \in accounts
  BY <1>9 DEF OneProfileWrite, SomeCreating
<1>11. \A b \in Calls, n \in Emails : Creating(b, n)' => Creating(b, n) /\ b # c
  BY <1>4 DEF Creating
<1>12. ~SomeCreating(m)'
  BY <1>9, <1>11 DEF SomeCreating, OneProfileWrite
<1>13. \A n \in Emails : Written(n)' = Written(n)
  BY <1>3 DEF Written
<1>14. \A n \in Emails : SomeCreating(n)' => SomeCreating(n)
  BY <1>11 DEF SomeCreating
<1>15. \A n \in Emails : n # m /\ SomeEnqueued(n)' => SomeEnqueued(n)
  BY <1>8 DEF SomeEnqueued
<1> SUFFICES ASSUME NEW n \in Emails
    PROVE  (/\ \A b, e \in Calls : Creating(b, n) /\ Creating(e, n) => b = e
            /\ \A f, e \in Devices : \A i \in Waiting(f), j \in Waiting(e) :
                 enqueued[f][i] = n /\ enqueued[e][j] = n => f = e /\ i = j
            /\ SomeCreating(n) => ~SomeEnqueued(n) /\ ~Written(n)
            /\ SomeEnqueued(n) => ~Written(n)
            /\ SomeCreating(n) \/ SomeEnqueued(n) \/ Written(n) => n \in accounts)'
  BY <1>6 DEF OneProfileWrite
<1>16. (\A b, e \in Calls : Creating(b, n) /\ Creating(e, n) => b = e)'
  BY <1>11 DEF OneProfileWrite
<1>17. (\A f, e \in Devices : \A i \in Waiting(f), j \in Waiting(e) :
         enqueued[f][i] = n /\ enqueued[e][j] = n => f = e /\ i = j)'
  <2>1. CASE n = m
    <3>1. \A e \in Devices : \A i \in Waiting(e)' :
            enqueued'[e][i] = m => e = d /\ i = Len(enqueued[d]) + 1
      BY <1>8, <1>10 DEF SomeEnqueued
    <3> QED BY <2>1, <3>1
  <2>2. CASE n # m
    <3>1. \A e \in Devices : \A i \in Waiting(e)' :
            enqueued'[e][i] = n => i \in Waiting(e) /\ enqueued[e][i] = n
      BY <1>8, <2>2
    <3> QED BY <3>1 DEF OneProfileWrite
  <2> QED BY <2>1, <2>2
<1>18. (SomeCreating(n) => ~SomeEnqueued(n) /\ ~Written(n))'
  <2>1. CASE n = m
    BY <1>12, <2>1
  <2>2. CASE n # m
    BY <1>13, <1>14, <1>15, <2>2 DEF OneProfileWrite
  <2> QED BY <2>1, <2>2
<1>19. (SomeEnqueued(n) => ~Written(n))'
  BY <1>10, <1>13, <1>15 DEF OneProfileWrite
<1>20. (SomeCreating(n) \/ SomeEnqueued(n) \/ Written(n) => n \in accounts)'
  BY <1>3, <1>10, <1>13, <1>14, <1>15 DEF OneProfileWrite
<1> QED BY <1>16, <1>17, <1>18, <1>19, <1>20

LEMMA SignOutStep ==
  ASSUME SignUpInv, NEW d \in Devices, SignOut(d)
  PROVE  SignUpInv'
<1> USE DEF SignUpInv, SignOut
<1>1. /\ enqueued' \in [Devices -> Seq(Emails \cup {Nobody})]
      /\ Len(enqueued[d]) \in Nat
      /\ Len(Append(enqueued[d], Nobody)) = Len(enqueued[d]) + 1
      /\ \A i \in 1 .. Len(enqueued[d]) + 1 :
           Append(enqueued[d], Nobody)[i] = IF i = Len(enqueued[d]) + 1
                                            THEN Nobody ELSE enqueued[d][i]
  BY AppendTyped
<1>2. enqueued'[d] = Append(enqueued[d], Nobody) /\ \A e \in Devices : e # d => enqueued'[e] = enqueued[e]
  BY DEF TypeOK
<1>3. \A e \in Devices : \A i \in Waiting(e)' :
        enqueued'[e][i] \in Emails => i \in Waiting(e) /\ enqueued'[e][i] = enqueued[e][i]
  <2> SUFFICES ASSUME NEW e \in Devices, NEW i \in Waiting(e)', enqueued'[e][i] \in Emails
      PROVE  i \in Waiting(e) /\ enqueued'[e][i] = enqueued[e][i]
    OBVIOUS
  <2>1. CASE e # d
    BY <1>2, <2>1 DEF Waiting
  <2>2. CASE e = d
    BY <1>1, <1>2, <2>2, SignUpAssumption DEF Waiting
  <2> QED BY <2>1, <2>2
<1>4. OneProfileWrite'
  BY <1>3, NothingNew DEF Creating, Written
<1> QED BY <1>1, <1>4 DEF TypeOK

(* The one profile write moves from the worker queue to the persisted one. *)
LEMMA RunWorkerStep ==
  ASSUME SignUpInv, NEW d \in Devices, RunWorker(d)
  PROVE  SignUpInv'
<1> USE DEF SignUpInv
<1>1. enqueued[d] # << >>
  BY DEF RunWorker
<1>2. PICK u \in Emails \cup {Nobody} : u = Head(enqueued[d])
  BY <1>1, TailTyped
<1>3. /\ user' = [user EXCEPT ![d] = u]
      /\ enqueued' = [enqueued EXCEPT ![d] = Tail(@)]
      /\ UNCHANGED <<call, accounts, profiles, screen, welcomed, cut, restarts>>
  BY <1>2 DEF RunWorker
<1>4. profile' = IF u = Nobody
                 THEN StreamTornDown(d)
                 ELSE [StreamTornDown(d) EXCEPT ![u] =
                         [state |-> "stored", device |-> d, handler |-> TRUE]]
  BY <1>2 DEF RunWorker
<1>5. /\ enqueued' \in [Devices -> Seq(Emails \cup {Nobody})]
      /\ u = enqueued[d][1]
      /\ Len(enqueued[d]) \in Nat \ {0}
      /\ Len(Tail(enqueued[d])) = Len(enqueued[d]) - 1
      /\ \A i \in 1 .. Len(enqueued[d]) - 1 : Tail(enqueued[d])[i] = enqueued[d][i + 1]
  BY <1>1, <1>2, <1>3, TailTyped
<1>6. /\ StreamTornDown(d) \in [Emails -> ProfileWrite \cup {NoWrite}]
      /\ \A m \in Emails : StreamTornDown(d)[m] # NoWrite <=> profile[m] # NoWrite
  BY StreamTornDownKeeps
<1>7. [state |-> "stored", device |-> d, handler |-> TRUE] \in ProfileWrite
  BY DEF ProfileWrite
<1>8. /\ profile' \in [Emails -> ProfileWrite \cup {NoWrite}]
      /\ \A m \in Emails : m # u => (profile'[m] # NoWrite <=> profile[m] # NoWrite)
  BY <1>4, <1>6, <1>7
<1>9. TypeOK'
  BY <1>3, <1>5, <1>8 DEF TypeOK
<1>10. enqueued'[d] = Tail(enqueued[d]) /\ \A e \in Devices : e # d => enqueued'[e] = enqueued[e]
  BY <1>3 DEF TypeOK
<1>11. \A e \in Devices : \A i \in Waiting(e)' :
         \/ e # d /\ i \in Waiting(e) /\ enqueued'[e][i] = enqueued[e][i]
         \/ e = d /\ i + 1 \in Waiting(e) /\ i # 0 /\ i \in Int
                  /\ enqueued'[e][i] = enqueued[e][i + 1]
  <2> SUFFICES ASSUME NEW e \in Devices, NEW i \in Waiting(e)'
      PROVE  \/ e # d /\ i \in Waiting(e) /\ enqueued'[e][i] = enqueued[e][i]
             \/ e = d /\ i + 1 \in Waiting(e) /\ i # 0 /\ i \in Int
                      /\ enqueued'[e][i] = enqueued[e][i + 1]
    OBVIOUS
  <2>1. CASE e # d
    BY <1>10, <2>1 DEF Waiting
  <2>2. CASE e = d
    <3>1. PICK k \in Nat \ {0} : k = Len(enqueued[d])
      BY <1>5
    <3>2. enqueued'[e] = Tail(enqueued[d]) /\ Len(enqueued'[e]) = k - 1
      BY <1>5, <1>10, <2>2, <3>1
    <3>3. i \in 1 .. k - 1
      BY <3>2 DEF Waiting
    <3>4. i + 1 \in 1 .. k /\ i # 0 /\ i \in Int
      BY <3>3
    <3>5. enqueued'[e][i] = enqueued[d][i + 1]
      BY <1>5, <3>1, <3>2, <3>3
    <3> QED BY <2>2, <3>1, <3>4, <3>5 DEF Waiting
  <2> QED BY <2>1, <2>2
<1>12. 1 \in Waiting(d)
  BY <1>5 DEF Waiting
<1>13. \A n \in Emails : SomeEnqueued(n)' => SomeEnqueued(n)
  BY <1>11 DEF SomeEnqueued
<1>14. u \in Emails => SomeEnqueued(u) /\ ~SomeCreating(u) /\ u \in accounts
  BY <1>5, <1>12 DEF SomeEnqueued, OneProfileWrite
<1>15. u \in Emails => ~SomeEnqueued(u)'
  <2> SUFFICES ASSUME u \in Emails, NEW e \in Devices, NEW i \in Waiting(e)',
                      enqueued'[e][i] = u
      PROVE  FALSE
    BY DEF SomeEnqueued
  <2>1. \A f \in Devices : \A j \in Waiting(f) : enqueued[f][j] = u => f = d /\ j = 1
    BY <1>5, <1>12 DEF OneProfileWrite
  <2> QED BY <1>11, <2>1
<1>16. \A n \in Emails : SomeCreating(n)' = SomeCreating(n)
  BY <1>3 DEF SomeCreating, Creating
<1>17. \A n \in Emails : n # u => Written(n)' = Written(n)
  BY <1>8 DEF Written
<1> SUFFICES ASSUME NEW n \in Emails
    PROVE  (/\ \A b, e \in Calls : Creating(b, n) /\ Creating(e, n) => b = e
            /\ \A f, e \in Devices : \A i \in Waiting(f), j \in Waiting(e) :
                 enqueued[f][i] = n /\ enqueued[e][j] = n => f = e /\ i = j
            /\ SomeCreating(n) => ~SomeEnqueued(n) /\ ~Written(n)
            /\ SomeEnqueued(n) => ~Written(n)
            /\ SomeCreating(n) \/ SomeEnqueued(n) \/ Written(n) => n \in accounts)'
  BY <1>9 DEF OneProfileWrite
<1>18. (\A b, e \in Calls : Creating(b, n) /\ Creating(e, n) => b = e)'
  BY <1>3 DEF OneProfileWrite, Creating
<1>19. (\A f, e \in Devices : \A i \in Waiting(f), j \in Waiting(e) :
         enqueued[f][i] = n /\ enqueued[e][j] = n => f = e /\ i = j)'
  <2> SUFFICES ASSUME NEW f \in Devices, NEW e \in Devices,
                      NEW i \in Waiting(f)', NEW j \in Waiting(e)',
                      enqueued'[f][i] = n, enqueued'[e][j] = n
      PROVE  f = e /\ i = j
    OBVIOUS
  <2>1. \A g, h \in Devices : \A k \in Waiting(g), l \in Waiting(h) :
          enqueued[g][k] = n /\ enqueued[h][l] = n => g = h /\ k = l
    BY DEF OneProfileWrite
  <2>2. CASE e = d /\ f = d
    <3>1. /\ i + 1 \in Waiting(d) /\ j + 1 \in Waiting(d) /\ i \in Int /\ j \in Int
          /\ enqueued[d][i + 1] = n /\ enqueued[d][j + 1] = n
      BY <1>11, <2>2
    <3>2. i + 1 = j + 1
      BY <2>1, <3>1
    <3> QED BY <2>2, <3>1, <3>2
  <2>3. CASE e = d /\ f # d
    BY <1>11, <2>1, <2>3
  <2>4. CASE e # d /\ f = d
    BY <1>11, <2>1, <2>4
  <2>5. CASE e # d /\ f # d
    BY <1>11, <2>1, <2>5
  <2> QED BY <2>2, <2>3, <2>4, <2>5
<1>20. (SomeCreating(n) => ~SomeEnqueued(n) /\ ~Written(n))'
  BY <1>13, <1>14, <1>16, <1>17 DEF OneProfileWrite
<1>21. (SomeEnqueued(n) => ~Written(n))'
  BY <1>13, <1>15, <1>17 DEF OneProfileWrite
<1>22. (SomeCreating(n) \/ SomeEnqueued(n) \/ Written(n) => n \in accounts)'
  BY <1>3, <1>13, <1>14, <1>16, <1>17 DEF OneProfileWrite
<1> QED BY <1>18, <1>19, <1>20, <1>21, <1>22

(* A profile write that moves on or goes back stays written.               *)
LEMMA ProfileChanges ==
  ASSUME SignUpInv, NEW m \in Emails, Written(m), NEW x \in {"stored", "applied", "over"},
         profile' = [profile EXCEPT ![m].state = x], UNCHANGED <<call, accounts, enqueued>>
  PROVE  /\ profile' \in [Emails -> ProfileWrite \cup {NoWrite}]
         /\ profile'[m].state = x
         /\ \A n \in Emails : n # m => profile'[n] = profile[n]
         /\ OneProfileWrite'
<1> USE DEF SignUpInv
<1>1. profile[m] \in ProfileWrite
  BY ProfileTyped DEF Written
<1>2. [profile[m] EXCEPT !.state = x] \in ProfileWrite
  BY <1>1 DEF ProfileWrite
<1>3. profile \in [Emails -> ProfileWrite \cup {NoWrite}]
  BY DEF TypeOK
<1>4. /\ profile' \in [Emails -> ProfileWrite \cup {NoWrite}]
      /\ profile'[m].state = x
      /\ \A n \in Emails : n # m => profile'[n] = profile[n]
  BY <1>1, <1>2, <1>3 DEF ProfileWrite
<1>5. \A n \in Emails : Written(n)' => Written(n)
  BY <1>4 DEF Written
<1> QED BY <1>4, <1>5, NothingNew DEF Creating, Waiting

LEMMA ServerAppliesStep ==
  ASSUME SignUpInv, NEW m \in Emails, ServerApplies(m)
  PROVE  SignUpInv'
<1>1. Written(m)
  BY DEF ServerApplies, Served, Written
<1>2. m \in accounts
  BY <1>1, WrittenHasAccount DEF SignUpInv
<1>3. profile' \in [Emails -> ProfileWrite \cup {NoWrite}] /\ OneProfileWrite'
  BY <1>1, ProfileChanges DEF ServerApplies
<1> QED BY <1>2, <1>3 DEF ServerApplies, SignUpInv, TypeOK

LEMMA StreamBreaksStep ==
  ASSUME SignUpInv, NEW m \in Emails, StreamBreaks(m)
  PROVE  SignUpInv'
<1>1. Written(m)
  BY DEF StreamBreaks, Served, Written
<1>2. profile' \in [Emails -> ProfileWrite \cup {NoWrite}] /\ OneProfileWrite'
  BY <1>1, ProfileChanges DEF StreamBreaks
<1> QED BY <1>2 DEF StreamBreaks, SignUpInv, TypeOK

LEMMA CompleteStep ==
  ASSUME SignUpInv, NEW m \in Emails, Written(m), Complete(m), cut' \subseteq cut \cup {m}
  PROVE  SignUpInv'
<1>1. m \in accounts
  BY WrittenHasAccount DEF SignUpInv
<1>2. profile' \in [Emails -> ProfileWrite \cup {NoWrite}] /\ OneProfileWrite'
  BY ProfileChanges DEF Complete
<1>3. profile[m] \in ProfileWrite
  BY ProfileTyped DEF Written, SignUpInv
<1>4. screen' \in [Devices -> {"signUp", "tabBar"}] /\ welcomed' \subseteq accounts
  <2>1. /\ screen \in [Devices -> {"signUp", "tabBar"}] /\ welcomed \subseteq accounts
        /\ profile[m].device \in Devices
    BY <1>3 DEF SignUpInv, TypeOK, ProfileWrite
  <2>2. CASE profile[m].handler
    BY <1>1, <2>1, <2>2 DEF Complete
  <2>3. CASE ~profile[m].handler
    BY <2>1, <2>3 DEF Complete
  <2> QED BY <2>2, <2>3
<1>5. cut' \subseteq accounts
  BY <1>1 DEF SignUpInv, TypeOK
<1>6. UNCHANGED <<call, accounts, profiles, enqueued, user, restarts>>
  BY DEF Complete
<1>7. TypeOK'
  BY <1>2, <1>4, <1>5, <1>6 DEF SignUpInv, TypeOK
<1> QED BY <1>2, <1>7 DEF SignUpInv

LEMMA AcknowledgeStep ==
  ASSUME SignUpInv, NEW m \in Emails, Acknowledge(m)
  PROVE  SignUpInv'
<1>1. Written(m)
  BY DEF Acknowledge, Served, Written
<1> QED BY <1>1, CompleteStep DEF Acknowledge

LEMMA RefuseStep ==
  ASSUME SignUpInv, NEW m \in Emails, Refuse(m)
  PROVE  SignUpInv'
<1>1. Written(m)
  BY DEF Refuse, Served, Written
<1> QED BY <1>1, CompleteStep DEF Refuse

(* A death takes what is in memory and leaves what is persisted.           *)
LEMMA RelaunchStep ==
  ASSUME SignUpInv, NEW d \in Devices, Relaunch(d)
  PROVE  SignUpInv'
<1> USE DEF SignUpInv
<1> DEFINE after(c) == IF call[c] = Unused \/ call[c].device # d THEN call[c]
                       ELSE [call[c] EXCEPT !.state =
                               IF @ \in {"sent", "orphaned"} THEN "orphaned" ELSE "over"]
<1>1. call' = [c \in Calls |-> after(c)]
  BY DEF Relaunch
<1>2. ASSUME NEW c \in Calls
      PROVE  after(c) \in Call \cup {Unused} /\ (after(c).state = "created" => after(c) = call[c])
  <2>1. CASE call[c] = Unused \/ call[c].device # d
    BY <2>1 DEF TypeOK
  <2>2. CASE ~(call[c] = Unused \/ call[c].device # d)
    <3>1. call[c] \in Call
      BY <2>2, CallTyped
    <3> QED BY <2>2, <3>1 DEF Call
  <2> QED BY <2>1, <2>2
<1> HIDE DEF after
<1>3. call' \in [Calls -> Call \cup {Unused}]
  BY <1>1, <1>2
<1>4. \A c \in Calls, m \in Emails : Creating(c, m)' => Creating(c, m)
  BY <1>1, <1>2 DEF Creating
<1>5. enqueued' = [enqueued EXCEPT ![d] = << >>]
  BY DEF Relaunch
<1>6. enqueued' \in [Devices -> Seq(Emails \cup {Nobody})]
  BY <1>5 DEF TypeOK
<1>7. \A e \in Devices : \A i \in Waiting(e)' :
        i \in Waiting(e) /\ enqueued'[e][i] = enqueued[e][i]
  <2> SUFFICES ASSUME NEW e \in Devices, NEW i \in Waiting(e)'
      PROVE  i \in Waiting(e) /\ enqueued'[e][i] = enqueued[e][i]
    OBVIOUS
  <2>1. CASE e = d
    <3>1. enqueued'[e] = << >>
      BY <1>5, <2>1 DEF TypeOK
    <3> QED BY <3>1 DEF Waiting
  <2>2. CASE e # d
    BY <1>5, <2>2 DEF Waiting, TypeOK
  <2> QED BY <2>1, <2>2
<1>8. /\ profile' \in [Emails -> ProfileWrite \cup {NoWrite}]
      /\ \A m \in Emails : Written(m)' => Written(m)
  <2>1. StreamTornDown(d) \in [Emails -> ProfileWrite \cup {NoWrite}]
        /\ \A m \in Emails : StreamTornDown(d)[m] # NoWrite <=> profile[m] # NoWrite
    BY StreamTornDownKeeps
  <2>2. profile' = [m \in Emails |-> IF At(d, m)
                                     THEN [StreamTornDown(d)[m] EXCEPT !.handler = FALSE]
                                     ELSE profile[m]]
    BY DEF Relaunch
  <2>3. ASSUME NEW m \in Emails
        PROVE  profile'[m] \in ProfileWrite \cup {NoWrite} /\ (Written(m)' => Written(m))
    <3>1. CASE At(d, m)
      <4>1. StreamTornDown(d)[m] \in ProfileWrite /\ Written(m)
        BY <2>1, <3>1 DEF At, Written
      <4>2. profile'[m] = [StreamTornDown(d)[m] EXCEPT !.handler = FALSE]
        BY <2>2, <3>1
      <4> QED BY <4>1, <4>2 DEF ProfileWrite
    <3>2. CASE ~At(d, m)
      BY <2>2, <3>2 DEF TypeOK, Written
    <3> QED BY <3>1, <3>2
  <2>4. profile' = [m \in Emails |-> profile'[m]]
    BY <2>2
  <2> QED BY <2>3, <2>4
<1>9. OneProfileWrite'
  BY <1>4, <1>7, <1>8, NothingNew DEF Relaunch
<1>10. cut' \subseteq accounts
  <2> SUFFICES ASSUME NEW m \in cut', m \notin cut
      PROVE  m \in accounts
    BY DEF TypeOK
  <2>1. CASE \E c \in Calls : call[c].state = "created" /\ m = call[c].email
    <3>1. PICK c \in Calls : call[c].state = "created" /\ m = call[c].email
      BY <2>1
    <3>2. m \in Emails
      BY <3>1, StateTyped DEF Call
    <3> QED BY <3>1, <3>2 DEF OneProfileWrite, SomeCreating, Creating
  <2>2. CASE m \in Emails /\ \E i \in 1 .. Len(enqueued[d]) : enqueued[d][i] = m
    BY <2>2 DEF OneProfileWrite, SomeEnqueued, Waiting
  <2> QED BY <2>1, <2>2 DEF Relaunch
<1>11. /\ accounts' = accounts /\ profiles' = profiles /\ welcomed' = welcomed
       /\ user' \in [Devices -> Emails \cup {Nobody}]
       /\ screen' \in [Devices -> {"signUp", "tabBar"}]
       /\ restarts' \in [Devices -> Nat]
  BY DEF Relaunch, TypeOK
<1> QED BY <1>3, <1>6, <1>8, <1>9, <1>10, <1>11 DEF TypeOK
----------------------------------------------------------------------------
LEMMA SignUpInitially == Init => SignUpInv
<1> SUFFICES ASSUME Init
    PROVE  SignUpInv
  OBVIOUS
<1>1. << >> \in Seq(Emails \cup {Nobody}) /\ Len(<< >>) = 0
  BY EmptySeq
<1>2. TypeOK
  BY <1>1 DEF Init, TypeOK
<1>3. \A d \in Devices : Waiting(d) = {}
  BY <1>1 DEF Init, Waiting
<1>4. \A m \in Emails : ~SomeCreating(m) /\ ~SomeEnqueued(m) /\ ~Written(m)
  BY <1>3 DEF Init, SomeCreating, Creating, SomeEnqueued, Written, Unused
<1>5. \A m \in Emails : \A c \in Calls : ~Creating(c, m)
  BY <1>4 DEF SomeCreating
<1> QED BY <1>2, <1>3, <1>4, <1>5 DEF SignUpInv, OneProfileWrite

LEMMA SignUpStep ==
  ASSUME SignUpInv, [Next]_vars
  PROVE  SignUpInv'
<1>1. ASSUME NEW c \in Calls,
             \/ \E d \in Devices, m \in Emails : SignUpButtonTapped(c, d, m)
             \/ CreateUser(c) \/ CreateUserFails(c) \/ CreateUserAnswers(c) \/ ReportError(c)
      PROVE  SignUpInv'
  BY <1>1, TappedStep, CreateUserStep, CreateUserFailsStep, CreateUserAnswersStep,
     ReportErrorStep
<1>2. ASSUME NEW d \in Devices, SignOut(d) \/ RunWorker(d) \/ Relaunch(d)
      PROVE  SignUpInv'
  BY <1>2, SignOutStep, RunWorkerStep, RelaunchStep
<1>3. ASSUME NEW m \in Emails,
             ServerApplies(m) \/ Acknowledge(m) \/ Refuse(m) \/ StreamBreaks(m)
      PROVE  SignUpInv'
  BY <1>3, ServerAppliesStep, AcknowledgeStep, RefuseStep, StreamBreaksStep
<1>4. CASE UNCHANGED vars
  <2>1. OneProfileWrite'
    BY <1>4, NothingNew DEF SignUpInv, vars, Creating, Waiting, Written
  <2>2. TypeOK'
    BY <1>4 DEF SignUpInv, vars, TypeOK
  <2> QED BY <2>1, <2>2 DEF SignUpInv
<1> QED BY <1>1, <1>2, <1>3, <1>4 DEF Next, AllUsed

LEMMA SignUpInvHolds == Spec => []SignUpInv
<1>1. SignUpInv /\ [Next]_vars => SignUpInv'
  BY SignUpStep
<1> QED BY SignUpInitially, <1>1, PTL DEF Spec

(* Every variable keeps its type; in particular only accounts have         *)
(* profiles, are welcomed or are recorded as cut short.                    *)
THEOREM SignUpTypeCorrect == Spec => []TypeOK
<1>1. SignUpInv => TypeOK
  BY DEF SignUpInv
<1> QED BY SignUpInvHolds, <1>1, PTL

(* createUser's completion writes the profile of an address at most once,  *)
(* however many taps race for it and however often apps are restarted:     *)
(* no fresh profile ever replaces one that already has a list of events.   *)
THEOREM ProfileWrittenOnce == Spec => []OneProfileWrite
<1>1. SignUpInv => OneProfileWrite
  BY DEF SignUpInv
<1> QED BY SignUpInvHolds, <1>1, PTL
----------------------------------------------------------------------------
(* Accounts without a profile.                                             *)

Explained == HalfSignUpsExplained /\ AppliedIsThere

(* No account is made, and what was under way goes on or is accounted for. *)
LEMMA StillExplained ==
  ASSUME TypeOK, HalfSignUpsExplained, accounts' = accounts,
         profiles \subseteq profiles', cut \subseteq cut',
         \A m \in Emails : Underway(m) => Underway(m)' \/ m \in cut' \/ m \in profiles'
  PROVE  HalfSignUpsExplained'
<1> SUFFICES ASSUME NEW m \in accounts
    PROVE  m \in profiles' \/ m \in cut' \/ Underway(m)'
  BY DEF HalfSignUpsExplained
<1>1. m \in Emails
  BY DEF TypeOK
<1> QED BY <1>1 DEF HalfSignUpsExplained

LEMMA EnqueuedStays ==
  ASSUME UNCHANGED enqueued, NEW m \in Emails
  PROVE  SomeEnqueued(m)' = SomeEnqueued(m)
BY DEF SomeEnqueued, Waiting

(* Only the calls change: those that were creating go on or are cut.       *)
LEMMA CallsStillExplained ==
  ASSUME TypeOK, Explained, UNCHANGED <<accounts, profiles, enqueued, profile>>,
         cut \subseteq cut',
         \A m \in Emails, c \in Calls : Creating(c, m) => Creating(c, m)' \/ m \in cut'
  PROVE  Explained'
<1>1. \A m \in Emails : Underway(m) => Underway(m)' \/ m \in cut'
  BY EnqueuedStays DEF Underway, SomeCreating
<1> QED BY <1>1, StillExplained DEF Explained, AppliedIsThere

LEMMA TappedExplained ==
  ASSUME SignUpInv, Explained, NEW c \in Calls, NEW d \in Devices, NEW m \in Emails,
         SignUpButtonTapped(c, d, m)
  PROVE  Explained'
<1>1. \A n \in Emails, b \in Calls : Creating(b, n) => Creating(b, n)'
  BY DEF SignUpButtonTapped, Creating, SignUpInv, TypeOK, Unused
<1> QED BY <1>1, CallsStillExplained DEF SignUpButtonTapped, SignUpInv

(* A new account has its call still going, or nobody to hear of it.        *)
LEMMA CreateUserExplained ==
  ASSUME SignUpInv, Explained, NEW c \in Calls, CreateUser(c)
  PROVE  Explained'
<1> USE DEF SignUpInv
<1>1. /\ call[c] \in Call /\ call[c].state # "unused" /\ TypeOK
      /\ call[c].state \in {"sent", "orphaned"}
  BY StateTyped DEF CreateUser
<1>2. PICK x \in {"sent", "orphaned", "created", "failed", "over"} :
        x = CASE call[c].state = "orphaned" -> "over"
              [] call[c].email \in accounts -> "failed"
              [] OTHER                      -> "created"
  OBVIOUS
<1>3. /\ call' = [call EXCEPT ![c].state = x]
      /\ accounts' = accounts \cup {call[c].email}
      /\ cut' = IF call[c].state = "orphaned" THEN cut \cup (accounts' \ accounts) ELSE cut
      /\ UNCHANGED <<profiles, enqueued, user, profile, screen, welcomed, restarts>>
  BY <1>2 DEF CreateUser
<1>4. /\ call'[c].state = x
      /\ call'[c].email = call[c].email
      /\ \A b \in Calls : b # c => call'[b] = call[b]
  BY <1>1, <1>2, <1>3, CallChanges
<1>5. \A n \in Emails, b \in Calls : Creating(b, n) => Creating(b, n)'
  BY <1>1, <1>4 DEF Creating
<1>6. \A n \in Emails : Underway(n) => Underway(n)'
  BY <1>3, <1>5, EnqueuedStays DEF Underway, SomeCreating
<1>7. ASSUME NEW n \in accounts'
      PROVE  n \in profiles' \/ n \in cut' \/ Underway(n)'
  <2>1. CASE n \in accounts
    <3>1. n \in Emails
      BY <2>1 DEF TypeOK
    <3> QED BY <1>3, <1>6, <2>1, <3>1 DEF Explained, HalfSignUpsExplained
  <2>2. CASE n \notin accounts /\ call[c].state = "orphaned"
    BY <1>3, <2>2
  <2>3. CASE n \notin accounts /\ call[c].state # "orphaned"
    <3>1. n = call[c].email /\ x = "created"
      BY <1>2, <1>3, <2>3
    <3>2. Creating(c, n)'
      BY <1>4, <3>1 DEF Creating
    <3> QED BY <3>2 DEF Underway, SomeCreating
  <2> QED BY <2>1, <2>2, <2>3
<1> QED BY <1>3, <1>7 DEF Explained, HalfSignUpsExplained, AppliedIsThere

(* The state a call was in tells whether its end takes an account along.   *)
LEMMA CallEndsExplained ==
  ASSUME SignUpInv, Explained, NEW c \in Calls, call[c].state # "unused",
         NEW x \in {"failed", "over"}, call' = [call EXCEPT ![c].state = x],
         UNCHANGED <<accounts, profiles, enqueued, profile>>, cut \subseteq cut',
         call[c].state = "created" => call[c].email \in cut'
  PROVE  Explained'
<1>1. \A b \in Calls : b # c => call'[b] = call[b]
  BY CallChanges DEF SignUpInv
<1>2. \A n \in Emails, b \in Calls : Creating(b, n) => Creating(b, n)' \/ n \in cut'
  BY <1>1 DEF Creating
<1> QED BY <1>2, CallsStillExplained DEF SignUpInv

LEMMA CreateUserFailsExplained ==
  ASSUME SignUpInv, Explained, NEW c \in Calls, CreateUserFails(c)
  PROVE  Explained'
BY CallEndsExplained DEF CreateUserFails

LEMMA ReportErrorExplained ==
  ASSUME SignUpInv, Explained, NEW c \in Calls, ReportError(c)
  PROVE  Explained'
BY CallEndsExplained DEF ReportError

(* Entries are added behind the others and none is taken.                  *)
LEMMA AppendKeeps ==
  ASSUME TypeOK, NEW d \in Devices, NEW u \in Emails \cup {Nobody},
         enqueued' = [enqueued EXCEPT ![d] = Append(@, u)]
  PROVE  /\ \A m \in Emails : SomeEnqueued(m) => SomeEnqueued(m)'
         /\ u \in Emails => SomeEnqueued(u)'
<1>1. /\ Len(enqueued[d]) \in Nat
      /\ Len(Append(enqueued[d], u)) = Len(enqueued[d]) + 1
      /\ \A i \in 1 .. Len(enqueued[d]) + 1 :
           Append(enqueued[d], u)[i] = IF i = Len(enqueued[d]) + 1
                                       THEN u ELSE enqueued[d][i]
  BY AppendTyped
<1>2. enqueued'[d] = Append(enqueued[d], u) /\ \A e \in Devices : e # d => enqueued'[e] = enqueued[e]
  BY DEF TypeOK
<1>3. PICK k \in Nat : k = Len(enqueued[d])
  BY <1>1
<1>4. Waiting(d)' = 1 .. k + 1 /\ Waiting(d) = 1 .. k
  BY <1>1, <1>2, <1>3 DEF Waiting
<1>5. \A e \in Devices : \A i \in Waiting(e) :
        i \in Waiting(e)' /\ enqueued'[e][i] = enqueued[e][i]
  <2> SUFFICES ASSUME NEW e \in Devices, NEW i \in Waiting(e)
      PROVE  i \in Waiting(e)' /\ enqueued'[e][i] = enqueued[e][i]
    OBVIOUS
  <2>1. CASE e = d
    <3>1. i \in 1 .. k /\ i \in 1 .. k + 1 /\ i # k + 1
      BY <1>4, <2>1
    <3> QED BY <1>1, <1>2, <1>3, <1>4, <2>1, <3>1
  <2>2. CASE e # d
    BY <1>2, <2>2 DEF Waiting
  <2> QED BY <2>1, <2>2
<1>6. k + 1 \in Waiting(d)' /\ enqueued'[d][k + 1] = u
  <2>1. k + 1 \in 1 .. k + 1
    BY <1>3
  <2> QED BY <1>1, <1>2, <1>3, <1>4, <2>1
<1> QED BY <1>5, <1>6 DEF SomeEnqueued

LEMMA CreateUserAnswersExplained ==
  ASSUME SignUpInv, Explained, NEW c \in Calls, CreateUserAnswers(c)
  PROVE  Explained'
<1> USE DEF SignUpInv
<1>1. call[c] \in Call /\ call[c].state = "created"
  BY StateTyped DEF CreateUserAnswers
<1>2. PICK m \in Emails, d \in Devices : m = call[c].email /\ d = call[c].device
  BY <1>1 DEF Call
<1>3. /\ call' = [call EXCEPT ![c].state = "over"]
      /\ enqueued' = [enqueued EXCEPT ![d] = Append(@, m)]
      /\ UNCHANGED <<accounts, profiles, user, profile, screen, welcomed, cut, restarts>>
  BY <1>2 DEF CreateUserAnswers
<1>4. \A b \in Calls : b # c => call'[b] = call[b]
  BY <1>1, <1>3, CallChanges
<1>5. (\A n \in Emails : SomeEnqueued(n) => SomeEnqueued(n)') /\ SomeEnqueued(m)'
  BY <1>3, AppendKeeps
<1>6. ASSUME NEW n \in Emails, SomeCreating(n)
      PROVE  SomeCreating(n)' \/ SomeEnqueued(n)'
  BY <1>2, <1>4, <1>5, <1>6 DEF SomeCreating, Creating
<1>7. \A n \in Emails : Underway(n) => Underway(n)'
  BY <1>3, <1>5, <1>6 DEF Underway
<1> QED BY <1>3, <1>7, StillExplained DEF Explained, AppliedIsThere

LEMMA SignOutExplained ==
  ASSUME SignUpInv, Explained, NEW d \in Devices, SignOut(d)
  PROVE  Explained'
<1>1. \A n \in Emails : SomeEnqueued(n) => SomeEnqueued(n)'
  BY AppendKeeps DEF SignOut, SignUpInv
<1>2. \A n \in Emails : SomeCreating(n)' = SomeCreating(n)
  BY DEF SignOut, SomeCreating, Creating
<1>3. \A n \in Emails : Underway(n) => Underway(n)'
  BY <1>1, <1>2 DEF SignOut, Underway
<1> QED BY <1>3, StillExplained DEF SignOut, SignUpInv, Explained, AppliedIsThere
(* One profile write changes its state; its document is there, or it is    *)
(* recorded as cut, or it waits to be sent again.                          *)
LEMMA ProfileExplained ==
  ASSUME SignUpInv, Explained, NEW m \in Emails, Written(m),
         NEW x \in {"stored", "applied", "over"},
         profile' = [profile EXCEPT ![m].state = x],
         UNCHANGED <<call, accounts, enqueued>>,
         profiles \subseteq profiles', cut \subseteq cut',
         x = "applied" => m \in profiles',
         x = "over" => m \in profiles' \/ m \in cut'
  PROVE  Explained'
<1> USE DEF SignUpInv
<1>1. /\ profile'[m].state = x
      /\ \A n \in Emails : n # m => profile'[n] = profile[n]
  BY ProfileChanges
<1>2. \A n \in Emails : SomeCreating(n)' = SomeCreating(n) /\ SomeEnqueued(n)' = SomeEnqueued(n)
  BY DEF SomeCreating, Creating, SomeEnqueued, Waiting
<1>3. ASSUME NEW n \in Emails, Underway(n)
      PROVE  Underway(n)' \/ n \in cut' \/ n \in profiles'
  <2>1. CASE n = m
    BY <1>1, <2>1 DEF Underway
  <2>2. CASE n # m
    BY <1>1, <1>2, <1>3, <2>2 DEF Underway
  <2> QED BY <2>1, <2>2
<1>4. HalfSignUpsExplained'
  BY <1>3, StillExplained DEF Explained
<1>5. AppliedIsThere'
  BY <1>1 DEF Explained, AppliedIsThere
<1> QED BY <1>4, <1>5 DEF Explained

LEMMA ServerAppliesExplained ==
  ASSUME SignUpInv, Explained, NEW m \in Emails, ServerApplies(m)
  PROVE  Explained'
<1>1. Written(m)
  BY DEF ServerApplies, Served, Written
<1> QED BY <1>1, ProfileExplained DEF ServerApplies

LEMMA StreamBreaksExplained ==
  ASSUME SignUpInv, Explained, NEW m \in Emails, StreamBreaks(m)
  PROVE  Explained'
<1>1. Written(m)
  BY DEF StreamBreaks, Served, Written
<1> QED BY <1>1, ProfileExplained DEF StreamBreaks

LEMMA AcknowledgeExplained ==
  ASSUME SignUpInv, Explained, NEW m \in Emails, Acknowledge(m)
  PROVE  Explained'
<1>1. Written(m)
  BY DEF Acknowledge, Served, Written
<1>2. m \in profiles
  BY DEF Acknowledge, Explained, AppliedIsThere
<1> QED BY <1>1, <1>2, ProfileExplained DEF Acknowledge, Complete

LEMMA RefuseExplained ==
  ASSUME SignUpInv, Explained, NEW m \in Emails, Refuse(m)
  PROVE  Explained'
<1>1. Written(m)
  BY DEF Refuse, Served, Written
<1> QED BY <1>1, ProfileExplained DEF Refuse, Complete

(* What leaves the worker queue is persisted in the same step.             *)
LEMMA RunWorkerExplained ==
  ASSUME SignUpInv, Explained, NEW d \in Devices, RunWorker(d)
  PROVE  Explained'
<1> USE DEF SignUpInv
<1>1. enqueued[d] # << >>
  BY DEF RunWorker
<1>2. PICK u \in Emails \cup {Nobody} : u = Head(enqueued[d])
  BY <1>1, TailTyped
<1>3. /\ enqueued' = [enqueued EXCEPT ![d] = Tail(@)]
      /\ UNCHANGED <<call, accounts, profiles, screen, welcomed, cut, restarts>>
  BY DEF RunWorker
<1>4. profile' = IF u = Nobody
                 THEN StreamTornDown(d)
                 ELSE [StreamTornDown(d) EXCEPT ![u] =
                         [state |-> "stored", device |-> d, handler |-> TRUE]]
  BY <1>2 DEF RunWorker
<1>5. PICK k \in Nat \ {0} : k = Len(enqueued[d])
  BY <1>1, TailTyped
<1>6. /\ u = enqueued[d][1]
      /\ Len(Tail(enqueued[d])) = k - 1
      /\ \A i \in 1 .. k - 1 : Tail(enqueued[d])[i] = enqueued[d][i + 1]
  BY <1>1, <1>2, <1>5, TailTyped
<1>7. enqueued'[d] = Tail(enqueued[d]) /\ \A e \in Devices : e # d => enqueued'[e] = enqueued[e]
  BY <1>3 DEF TypeOK
<1>8. \A n \in Emails : n = u => profile'[n].state = "stored"
  BY <1>4, SignUpAssumption, StreamTornDownKeeps
<1>9. \A n \in Emails : n # u =>
        \/ profile'[n].state = profile[n].state
        \/ profile[n].state = "applied" /\ profile'[n].state = "stored"
  <2> SUFFICES ASSUME NEW n \in Emails, n # u
      PROVE  \/ profile'[n].state = profile[n].state
             \/ profile[n].state = "applied" /\ profile'[n].state = "stored"
    OBVIOUS
  <2>1. profile'[n] = StreamTornDown(d)[n]
    BY <1>4, StreamTornDownKeeps
  <2> QED BY <2>1, StreamTornDownKeeps
<1>10. ASSUME NEW n \in Emails, SomeEnqueued(n), n # u
       PROVE  SomeEnqueued(n)'
  <2>1. PICK e \in Devices : \E i \in Waiting(e) : enqueued[e][i] = n
    BY <1>10 DEF SomeEnqueued
  <2>2. CASE e # d
    BY <1>7, <2>1, <2>2 DEF SomeEnqueued, Waiting
  <2>3. CASE e = d
    <3>0. PICK i \in 1 .. k : enqueued[d][i] = n
      BY <1>5, <2>1, <2>3 DEF Waiting
    <3>1. i \in 1 .. k /\ i # 1
      BY <1>6, <1>10, <3>0
    <3>2. PICK j \in 1 .. k - 1 : i = j + 1
      BY <3>1
    <3>3. enqueued'[d][j] = n
      BY <1>6, <1>7, <3>0, <3>2
    <3>4. j \in Waiting(d)'
      BY <1>6, <1>7, <3>2 DEF Waiting
    <3> QED BY <3>3, <3>4 DEF SomeEnqueued
  <2> QED BY <2>2, <2>3
<1>11. \A n \in Emails : SomeCreating(n)' = SomeCreating(n)
  BY <1>3 DEF SomeCreating, Creating
<1>12. \A n \in Emails : Underway(n) => Underway(n)'
  BY <1>8, <1>9, <1>10, <1>11 DEF Underway
<1>13. AppliedIsThere'
  BY <1>3, <1>8, <1>9 DEF Explained, AppliedIsThere
<1> QED BY <1>3, <1>12, <1>13, StillExplained DEF Explained

(* What a death takes along is recorded; what is persisted stays.          *)
LEMMA RelaunchExplained ==
  ASSUME SignUpInv, Explained, NEW d \in Devices, Relaunch(d)
  PROVE  Explained'
<1> USE DEF SignUpInv
<1>1. ASSUME NEW n \in Emails, SomeCreating(n)
      PROVE  SomeCreating(n)' \/ n \in cut'
  <2>1. PICK c \in Calls : call[c].state = "created" /\ call[c].email = n
    BY <1>1 DEF SomeCreating, Creating
  <2>2. CASE call[c].device = d
    BY <2>1, <2>2 DEF Relaunch
  <2>3. CASE call[c].device # d
    <3>1. call'[c] = call[c]
      BY <2>3 DEF Relaunch
    <3> QED BY <2>1, <3>1 DEF SomeCreating, Creating
  <2> QED BY <2>2, <2>3
<1>2. ASSUME NEW n \in Emails, SomeEnqueued(n)
      PROVE  SomeEnqueued(n)' \/ n \in cut'
  <2>1. PICK e \in Devices : \E i \in Waiting(e) : enqueued[e][i] = n
    BY <1>2 DEF SomeEnqueued
  <2>2. CASE e = d
    BY <2>1, <2>2 DEF Relaunch, Waiting
  <2>3. CASE e # d
    <3>1. enqueued'[e] = enqueued[e]
      BY <2>3 DEF Relaunch, TypeOK
    <3> QED BY <2>1, <3>1 DEF SomeEnqueued, Waiting
  <2> QED BY <2>2, <2>3
<1>3. ASSUME NEW n \in Emails
      PROVE  \/ profile'[n].state = profile[n].state
             \/ profile[n].state = "applied" /\ profile'[n].state = "stored"
  <2>1. profile'[n] = IF At(d, n) THEN [StreamTornDown(d)[n] EXCEPT !.handler = FALSE]
                                  ELSE profile[n]
    BY DEF Relaunch
  <2>2. CASE At(d, n)
    <3>1. StreamTornDown(d)[n] \in ProfileWrite
      BY <2>2, StreamTornDownKeeps DEF At
    <3>2. profile'[n].state = StreamTornDown(d)[n].state
      BY <2>1, <2>2, <3>1 DEF ProfileWrite
    <3> QED BY <3>2, StreamTornDownKeeps
  <2>3. CASE ~At(d, n)
    BY <2>1, <2>3
  <2> QED BY <2>2, <2>3
<1>4. /\ accounts' = accounts /\ profiles' = profiles
      /\ cut \subseteq cut'
  BY DEF Relaunch
<1>5. \A n \in Emails : Underway(n) => Underway(n)' \/ n \in cut'
  BY <1>1, <1>2, <1>3 DEF Underway
<1>6. AppliedIsThere'
  BY <1>3, <1>4 DEF Explained, AppliedIsThere
<1> QED BY <1>4, <1>5, <1>6, StillExplained DEF Explained
----------------------------------------------------------------------------
LEMMA ExplainedStep ==
  ASSUME SignUpInv, Explained, [Next]_vars
  PROVE  Explained'
<1>1. ASSUME NEW c \in Calls,
             \/ \E d \in Devices, m \in Emails : SignUpButtonTapped(c, d, m)
             \/ CreateUser(c) \/ CreateUserFails(c) \/ CreateUserAnswers(c) \/ ReportError(c)
      PROVE  Explained'
  BY <1>1, TappedExplained, CreateUserExplained, CreateUserFailsExplained,
     CreateUserAnswersExplained, ReportErrorExplained
<1>2. ASSUME NEW d \in Devices, SignOut(d) \/ RunWorker(d) \/ Relaunch(d)
      PROVE  Explained'
  BY <1>2, SignOutExplained, RunWorkerExplained, RelaunchExplained
<1>3. ASSUME NEW m \in Emails,
             ServerApplies(m) \/ Acknowledge(m) \/ Refuse(m) \/ StreamBreaks(m)
      PROVE  Explained'
  BY <1>3, ServerAppliesExplained, AcknowledgeExplained, RefuseExplained,
     StreamBreaksExplained
<1>4. CASE UNCHANGED vars
  BY <1>4, CallsStillExplained DEF SignUpInv, vars, Creating
<1> QED BY <1>1, <1>2, <1>3, <1>4 DEF Next, AllUsed

LEMMA ExplainedInitially == Init => Explained
BY DEF Init, Explained, HalfSignUpsExplained, AppliedIsThere, NoWrite

LEMMA ExplainedHolds == Spec => [](SignUpInv /\ Explained)
<1>1. SignUpInv /\ Explained /\ [Next]_vars => SignUpInv' /\ Explained'
  BY SignUpStep, ExplainedStep
<1> QED BY SignUpInitially, ExplainedInitially, <1>1, PTL DEF Spec

(* An account stays without a profile only while its profile write is      *)
(* under way, or because a crash, a lost answer or a refusal came between  *)
(* createUser and setData of signUp.                                       *)
THEOREM HalfSignUpsAlwaysExplained == Spec => []HalfSignUpsExplained
<1>1. Explained => HalfSignUpsExplained
  BY DEF Explained
<1> QED BY ExplainedHolds, <1>1, PTL
----------------------------------------------------------------------------
LEMMA WelcomedStep ==
  ASSUME ~Refusable, Explained, WelcomedHasProfile, [Next]_vars
  PROVE  WelcomedHasProfile'
<1> USE DEF WelcomedHasProfile
<1>1. ASSUME NEW m \in Emails, Acknowledge(m)
      PROVE  WelcomedHasProfile'
  <2>1. m \in profiles
    BY <1>1 DEF Acknowledge, Explained, AppliedIsThere
  <2> QED BY <1>1, <2>1 DEF Acknowledge, Complete
<1>2. ASSUME NEW m \in Emails, ServerApplies(m) \/ Refuse(m) \/ StreamBreaks(m)
      PROVE  WelcomedHasProfile'
  BY <1>2 DEF ServerApplies, Refuse, StreamBreaks
<1>3. ASSUME NEW c \in Calls,
             \/ \E d \in Devices, m \in Emails : SignUpButtonTapped(c, d, m)
             \/ CreateUser(c) \/ CreateUserFails(c) \/ CreateUserAnswers(c) \/ ReportError(c)
      PROVE  WelcomedHasProfile'
  BY <1>3 DEF SignUpButtonTapped, CreateUser, CreateUserFails, CreateUserAnswers, ReportError
<1>4. ASSUME NEW d \in Devices, SignOut(d) \/ RunWorker(d) \/ Relaunch(d)
      PROVE  WelcomedHasProfile'
  BY <1>4 DEF SignOut, RunWorker, Relaunch
<1>5. CASE UNCHANGED vars
  BY <1>5 DEF vars
<1> QED BY <1>1, <1>2, <1>3, <1>4, <1>5 DEF Next, AllUsed

(* As long as the backend refuses no profile write, whoever setData's      *)
(* completion sends to the tab bar has a profile, restarts or not.         *)
THEOREM WelcomedAlwaysHasProfile ==
  ASSUME ~Refusable
  PROVE  Spec => []WelcomedHasProfile
<1>1. Init => WelcomedHasProfile
  BY DEF Init, WelcomedHasProfile
<1>2. Explained /\ WelcomedHasProfile /\ [Next]_vars => WelcomedHasProfile'
  BY WelcomedStep
<1> QED BY <1>1, <1>2, ExplainedHolds, PTL DEF Spec
----------------------------------------------------------------------------
LEMMA WelcomeExplainedStep ==
  ASSUME Explained, WelcomeExplained, [Next]_vars
  PROVE  WelcomeExplained'
<1> USE DEF WelcomeExplained
<1>1. ASSUME NEW m \in Emails, Acknowledge(m)
      PROVE  WelcomeExplained'
  <2>1. m \in profiles
    BY <1>1 DEF Acknowledge, Explained, AppliedIsThere
  <2> QED BY <1>1, <2>1 DEF Acknowledge, Complete
<1>2. ASSUME NEW m \in Emails, ServerApplies(m) \/ Refuse(m) \/ StreamBreaks(m)
      PROVE  WelcomeExplained'
  BY <1>2 DEF ServerApplies, Refuse, Complete, StreamBreaks
<1>3. ASSUME NEW c \in Calls,
             \/ \E d \in Devices, m \in Emails : SignUpButtonTapped(c, d, m)
             \/ CreateUser(c) \/ CreateUserFails(c) \/ CreateUserAnswers(c) \/ ReportError(c)
      PROVE  WelcomeExplained'
  BY <1>3 DEF SignUpButtonTapped, CreateUser, CreateUserFails, CreateUserAnswers, ReportError
<1>4. ASSUME NEW d \in Devices, SignOut(d) \/ RunWorker(d) \/ Relaunch(d)
      PROVE  WelcomeExplained'
  BY <1>4 DEF SignOut, RunWorker, Relaunch
<1>5. CASE UNCHANGED vars
  BY <1>5 DEF vars
<1> QED BY <1>1, <1>2, <1>3, <1>4, <1>5 DEF Next, AllUsed

(* Whatever the backend refuses, an account that is sent to the tab bar    *)
(* without a profile is one whose profile write was lost.                  *)
THEOREM WelcomeAlwaysExplained == Spec => []WelcomeExplained
<1>1. Init => WelcomeExplained
  BY DEF Init, WelcomeExplained
<1>2. Explained /\ WelcomeExplained /\ [Next]_vars => WelcomeExplained'
  BY WelcomeExplainedStep
<1> QED BY <1>1, <1>2, ExplainedHolds, PTL DEF Spec
=============================================================================
