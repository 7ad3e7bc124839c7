--------------------------- MODULE PsrpChannelProofs ---------------------------
(* Theorems about PsrpChannel, for any clients, any size of the client table *)
(* and any clients that may be killed.                                       *)
EXTENDS PsrpChannel, FiniteSetTheorems, SequenceTheorems, WellFoundedInduction, TLAPS

-----------------------------------------------------------------------------
(* Where an operation stands: for the client that holds the lock, what the   *)
(* server is doing, which signal is pending and which lines are in the FIFOs.*)

Quiet == sigs = [s \in Signals |-> 0]
Pending(signal) == sigs = [s \in Signals |-> IF s = signal THEN 1 ELSE 0]

(* The server is about to close its streams, or has. *)
AtRest == sv = "closing" \/ (sv = "main" /\ ~streams)

HasSlot == current \in Index /\ client[current] = lock

(* What an operation has written until the server has read its first line. *)
Sent ==
    \/ pc[lock] \in {"open", "grab", "close"} /\ req = << >>
    \/ pc[lock] = "seg" /\ req = <<Line("OPEN", lock)>>
    \/ pc[lock] = "grope to chan" /\ req = <<Line("GRAB", lock), Line("INFO", lock)>>
    \/ pc[lock] = "close to off" /\ req = <<Line("CLOSE", lock)>>

Calling == Pending("SIGINIT") /\ AtRest /\ ans = << >> /\ ahead = 0 /\ Sent

Listening == Quiet /\ sv = "op" /\ ans = << >> /\ ahead = 0 /\ Sent

(* The server has answered the first line and waits for the next. *)
Informing ==
    /\ Quiet /\ sv = "info" /\ current \in Index /\ client[current] \in {NoPid, lock}
    /\ \/ pc[lock] = "seg" /\ req = << >> /\ ans = <<"seg">>
       \/ pc[lock] = "info" /\ req = << >> /\ ans = << >>
       \/ pc[lock] = "grope to idle" /\ req = <<Line("INFO", lock)>> /\ ans = << >>
       \/ pc[lock] = "grope to chan" /\ req = <<Line("INFO", lock)>> /\ ans \in {<< >>, <<"seg">>}

Groped ==
    /\ Quiet /\ AtRest /\ HasSlot /\ req = << >>
    /\ \/ pc[lock] = "grope to idle" /\ ans = <<"EOP grope">>
       \/ pc[lock] = "grope to chan" /\ ans \in {<<"EOP grope">>, <<"seg", "EOP grope">>}

Hailing ==
    Pending("SIGCHAN") /\ AtRest /\ HasSlot /\ pc[lock] = "chan" /\ req = << >> /\ ans = << >>

Hailed ==
    /\ Quiet /\ sv = "main" /\ streams /\ HasSlot
    /\ pc[lock] = "chan" /\ req = << >> /\ ans = <<"EOP chan">>

Prompting ==
    /\ Pending("SIGPSRP") /\ sv = "main" /\ streams /\ HasSlot
    /\ pc[lock] = "head" /\ req = << >> /\ ans = << >>

Requesting ==
    /\ Quiet /\ sv = "req" /\ HasSlot
    /\ \/ pc[lock] = "head" /\ req = << >> /\ ans = <<"head">>
       \/ pc[lock] = "request" /\ req = << >> /\ ans = << >>
       \/ pc[lock] = "psrp" /\ req = <<Line("REQ", lock)>> /\ ans = << >>

Done ==
    /\ Quiet /\ AtRest /\ req = << >>
    /\ \/ pc[lock] = "psrp" /\ ans = <<"EOP psrp">>
       \/ pc[lock] = "close to off" /\ ans = <<"EOP close">>

Phase ==
    \/ Calling \/ Listening \/ Informing \/ Groped \/ Hailing
    \/ Hailed \/ Prompting \/ Requesting \/ Done

Rest == Quiet /\ AtRest /\ req = << >> /\ ans = << >>

(* A refused client waits for an answer that nobody sends. *)
Stranded ==
    /\ Quiet /\ sv \in {"closing", "main", "bad index"}
    /\ ans \in {<< >>, <<"connect error">>}
    /\ pc[lock] \in {"seg", "info", "grope to idle", "grope to chan"}

Apart == {"off", "idle", "dead"}

(* While nobody dies with the lock in hand, one operation is under way at    *)
(* most, and it is in one of its phases.                                     *)
InTurn ==
    "died" \notin mishap =>
        /\ \A c \in Clients : c # lock => pc[c] \in Apart
        /\ "refused" \in mishap => lock # NoPid /\ Stranded
        /\ "refused" \notin mishap =>
               /\ current \in Index
               /\ lock = NoPid => Rest
               /\ lock # NoPid => Phase

(* The slot that is about to be filled is the only one its client may have.  *)
OneSlotAhead ==
    sv = "info" /\ mishap \cap {"died", "recount"} = {} =>
        \A i \in Index : client[i] = lock => i = current

IInv == TypeOK /\ InTurn /\ ConnectedHaveSlot /\ OneSlotAhead /\ CountRight

-----------------------------------------------------------------------------
(* Minima and maxima, sequences. *)

LEMMA MinOf ==
    ASSUME NEW S, S \subseteq Nat, S # {}
    PROVE  Min(S) \in S
  <1>1. PICK x \in S : \A y \in S : <<y, x>> \notin OpToRel(<, Nat)
    BY NatLessThanWellFounded, WFMin, Zenon
  <1>2. \A y \in S : x <= y
    <2> SUFFICES ASSUME NEW y \in S PROVE x <= y
      OBVIOUS
    <2>1. ~(y < x)
      BY <1>1 DEF OpToRel
    <2> QED
      BY <2>1
  <1> QED
    BY <1>2 DEF Min

LEMMA FewerAre ==
    ASSUME NEW n \in Nat, count \in Int
    PROVE  /\ Fewer(n) \in Int /\ Fewer(n) >= MinCount
           /\ n <= count => Fewer(n) = count - n
  <1> DEFINE S == {count - n, MinCount}
             x == IF count - n >= MinCount THEN count - n ELSE MinCount
  <1>1. x \in S /\ \A y \in S : x >= y
    BY PsrpChannelAssumption
  <1>2. Max(S) \in S /\ \A y \in S : Max(S) >= y
    <2> HIDE DEF S, x
    <2> QED
      BY <1>1 DEF Max
  <1>3. Max(S) = x
    BY <1>2, PsrpChannelAssumption
  <1> QED
    BY <1>3, PsrpChannelAssumption DEF Fewer

LEMMA Sequences ==
    ASSUME NEW S, NEW s \in Seq(S)
    PROVE  /\ s # << >> => Head(s) \in S /\ Tail(s) \in Seq(S) /\ Len(Tail(s)) = Len(s) - 1
                           /\ Len(s) > 0
           /\ \A n \in 0..Len(s) :
                  /\ SubSeq(s, 1, n) \in Seq(S) /\ Len(SubSeq(s, 1, n)) = n
                  /\ SubSeq(s, n + 1, Len(s)) \in Seq(S)
           /\ \A x \in S : Append(s, x) \in Seq(S)
           /\ \A t \in Seq(S) : s \o t \in Seq(S) /\ Len(s \o t) = Len(s) + Len(t)
  <1>1. s # << >> => Head(s) \in S /\ Tail(s) \in Seq(S) /\ Len(Tail(s)) = Len(s) - 1
                     /\ Len(s) > 0
    OBVIOUS
  <1>2. \A n \in 0..Len(s) :
            /\ SubSeq(s, 1, n) \in Seq(S) /\ Len(SubSeq(s, 1, n)) = n
            /\ SubSeq(s, n + 1, Len(s)) \in Seq(S)
    OBVIOUS
  <1>3. \A x \in S : Append(s, x) \in Seq(S)
    OBVIOUS
  <1>4. \A t \in Seq(S) : s \o t \in Seq(S) /\ Len(s \o t) = Len(s) + Len(t)
    OBVIOUS
  <1> QED
    BY <1>1, <1>2, <1>3, <1>4

LEMMA Short ==
    ASSUME NEW x, NEW y
    PROVE  /\ <<x>> # << >> /\ <<x, y>> # << >> /\ << >> # <<x>>
           /\ Head(<<x>>) = x /\ Tail(<<x>>) = << >> /\ Len(<<x>>) = 1
           /\ Head(<<x, y>>) = x /\ Tail(<<x, y>>) = <<y>> /\ Len(<<x, y>>) = 2
           /\ Append(<< >>, x) = <<x>> /\ Append(<<x>>, y) = <<x, y>>
           /\ << >> \o <<x>> = <<x>> /\ << >> \o <<x, y>> = <<x, y>>
  <1>1. /\ <<x>> # << >> /\ <<x, y>> # << >>
        /\ Head(<<x>>) = x /\ Tail(<<x>>) = << >> /\ Len(<<x>>) = 1
    OBVIOUS
  <1>2. Head(<<x, y>>) = x /\ Len(<<x, y>>) = 2
    OBVIOUS
  <1>3. Tail(<<x, y>>) = <<y>>
    <2> DEFINE s == <<x, y>>
    <2>1. s \in Seq({x, y}) /\ Len(s) = 2 /\ s[2] = y /\ s # << >>
      OBVIOUS
    <2> HIDE DEF s
    <2>2. Tail(s) \in Seq({x, y}) /\ Len(Tail(s)) = 1 /\ Tail(s)[1] = y
      BY <2>1
    <2>3. <<y>> \in Seq({x, y}) /\ Len(<<y>>) = 1 /\ <<y>>[1] = y
      OBVIOUS
    <2>4. Tail(s) = <<y>>
      <3> DEFINE t == Tail(s)
                 u == <<y>>
      <3>1. /\ t \in Seq({x, y}) /\ Len(t) = 1 /\ t[1] = y
            /\ u \in Seq({x, y}) /\ Len(u) = 1 /\ u[1] = y
        BY <2>2, <2>3
      <3> HIDE DEF t, u
      <3>2. Len(t) = Len(u) /\ \A i \in 1..Len(t) : t[i] = u[i]
        BY <3>1
      <3>3. t = u
        BY <3>1, <3>2, SeqEqual
      <3> QED
        BY <3>3 DEF t, u
    <2> QED
      BY <2>4, Zenon DEF s
  <1>4. Append(<< >>, x) = <<x>>
    OBVIOUS
  <1>4a. Append(<<x>>, y) = <<x, y>>
    <2> DEFINE s == <<x>>
               t == Append(s, y)
               u == <<x, y>>
    <2>1. s \in Seq({x, y}) /\ Len(s) = 1 /\ s[1] = x
      OBVIOUS
    <2>2. u \in Seq({x, y}) /\ Len(u) = 2 /\ u[1] = x /\ u[2] = y
      OBVIOUS
    <2> HIDE DEF s
    <2>3. t \in Seq({x, y}) /\ Len(t) = 2 /\ t[1] = x /\ t[2] = y
      <3>1. /\ t \in Seq({x, y}) /\ Len(t) = Len(s) + 1
            /\ \A i \in 1..Len(s) : t[i] = s[i]
            /\ t[Len(s) + 1] = y
        <4> HIDE DEF t
        <4>1. y \in {x, y} /\ s \in Seq({x, y})
          BY <2>1
        <4>2. /\ Append(s, y) \in Seq({x, y}) /\ Len(Append(s, y)) = Len(s) + 1
              /\ \A i \in 1..Len(s) : Append(s, y)[i] = s[i]
              /\ Append(s, y)[Len(s) + 1] = y
          BY <4>1, AppendProperties
        <4> QED
          BY <4>2 DEF t
      <3> HIDE DEF t
      <3> QED
        BY <2>1, <3>1
    <2> HIDE DEF t, u
    <2>4. Len(t) = Len(u) /\ \A i \in 1..Len(t) : t[i] = u[i]
      BY <2>2, <2>3
    <2>5. t = u
      BY <2>2, <2>3, <2>4, SeqEqual
    <2> QED
      BY <2>5, Zenon DEF s, t, u
  <1>5. << >> \o <<x>> = <<x>>
    OBVIOUS
  <1>6. << >> \o <<x, y>> = <<x, y>>
    OBVIOUS
  <1> QED
    BY <1>1, <1>2, <1>3, <1>4, <1>4a, <1>5, <1>6

LEMMA Kept ==
    ASSUME NEW S, NEW s \in Seq(S)
    PROVE  /\ SubSeq(s, 0 + 1, Len(s)) = s
           /\ \A n \in 0..Len(s) : s = << >> =>
                  n = 0 /\ SubSeq(s, 1, n) = << >> /\ SubSeq(s, n + 1, Len(s)) = << >>
  <1>1. SubSeq(s, 1, Len(s)) = s
    BY SubSeqFull
  <1>2. ASSUME NEW n \in 0..Len(s), s = << >>
        PROVE  n = 0 /\ SubSeq(s, 1, n) = << >> /\ SubSeq(s, n + 1, Len(s)) = << >>
    <2>1. Len(s) = 0 /\ n = 0
      BY <1>2
    <2>2. SubSeq(s, 1, 0) = << >>
      BY SubSeqEmpty
    <2> QED
      BY <2>1, <2>2
  <1> QED
    BY <1>1, <1>2

-----------------------------------------------------------------------------
(* Types. *)

ClientSteps(c) ==
    \/ Open(c) \/ Grab(c) \/ Close(c) \/ Die(c)
    \/ Asks(c) \/ ReadsAny(c) \/ Skips(c)
    \/ Opened(c) \/ Closed(c) \/ Grabbed(c) \/ Heard(c) \/ Served(c)

LEMMA StepNames ==
    Steps = {"off", "idle", "dead", "open", "seg", "info", "grab", "head", "request", "close",
             "grope to idle", "grope to chan", "chan", "psrp", "close to off"}
  BY DEF Steps, Awaited

LEMMA InitType == Init => TypeOK
  <1> SUFFICES ASSUME Init PROVE TypeOK
    OBVIOUS
  <1>1. pc \in [Clients -> Steps] /\ sigs \in [Signals -> Nat]
    BY StepNames DEF Init
  <1>2. req \in Seq(Lines) /\ ans \in Seq(Answers) /\ ahead \in 0..Len(req)
    BY EmptySeq DEF Init
  <1>3. client \in [Index -> Clients \cup {NoPid}] /\ current \in Index
    BY PsrpChannelAssumption DEF Init, Index
  <1>4. /\ lock = NoPid /\ sv = "main" /\ streams = FALSE /\ open = FALSE
        /\ count = 0 /\ mishap = {}
    BY DEF Init
  <1>5. count \in Int /\ count >= MinCount
    BY <1>4, PsrpChannelAssumption
  <1> QED
    BY <1>1, <1>2, <1>3, <1>4, <1>5 DEF TypeOK

LEMMA Reqs ==
    ASSUME TypeOK
    PROVE  /\ req # << >> => Head(req) \in Lines /\ Tail(req) \in Seq(Lines)
                             /\ Len(Tail(req)) = Len(req) - 1 /\ Len(req) > 0
           /\ SubSeq(req, 1, ahead) \in Seq(Lines) /\ Len(SubSeq(req, 1, ahead)) = ahead
           /\ SubSeq(req, ahead + 1, Len(req)) \in Seq(Lines)
           /\ Len(req) \in Nat /\ ahead \in Nat /\ ahead <= Len(req)
  <1>1. req \in Seq(Lines) /\ ahead \in 0..Len(req) /\ Len(req) \in Nat
    BY LenProperties DEF TypeOK
  <1> QED
    BY <1>1, Sequences

LEMMA Answering ==
    ASSUME TypeOK
    PROVE  /\ ans # << >> => Tail(ans) \in Seq(Answers)
           /\ \A line \in Answers : Append(ans, line) \in Seq(Answers)
  <1>1. ans \in Seq(Answers)
    BY DEF TypeOK
  <1> QED
    BY <1>1, Sequences

LEMMA Stepped ==
    ASSUME TypeOK, NEW c \in Clients, NEW at, NEW to \in Steps, Goes(c, at, to)
    PROVE  pc' \in [Clients -> Steps]
  BY DEF TypeOK, Goes

LEMMA Signalled ==
    ASSUME TypeOK, NEW s \in Signals, Kill(s)
    PROVE  sigs' \in [Signals -> Nat]
  <1>1. sigs \in [Signals -> Nat] /\ sigs[s] \in Nat
    BY DEF TypeOK
  <1> QED
    BY <1>1 DEF Kill

LEMMA SignalTaken ==
    ASSUME TypeOK, NEW s \in Signals, Takes(s)
    PROVE  sigs' \in [Signals -> Nat]
  <1>1. sigs \in [Signals -> Nat] /\ sigs[s] \in Nat /\ sigs[s] > 0
    BY DEF TypeOK, Takes
  <1> QED
    BY <1>1 DEF Takes

LEMMA SlotsFound ==
    ASSUME TypeOK, NEW c \in Clients
    PROVE  /\ Known(c) # {} => GetSlot(c) \in Known(c)
           /\ Known(c) = {} /\ Free # {} => GetSlot(c) \in Free
           /\ Known(c) = {} /\ Free = {} => GetSlot(c) = ENOCH
           /\ GetSlot(c) # ENOCH => GetSlot(c) \in Index
           /\ Index \subseteq Nat /\ ENOCH \notin Index
  <1>1. Index \subseteq Nat /\ ENOCH \notin Index
    BY PsrpChannelAssumption DEF Index, ENOCH
  <1>2. Known(c) \subseteq Index /\ Free \subseteq Index
    BY DEF Known, Free
  <1>3. Known(c) # {} => Min(Known(c)) \in Known(c)
    BY <1>1, <1>2, MinOf
  <1>4. Free # {} => Min(Free) \in Free
    BY <1>1, <1>2, MinOf
  <1> QED
    BY <1>1, <1>2, <1>3, <1>4 DEF GetSlot

LEMMA TypeOfClients ==
    ASSUME TypeOK, NEW c \in Clients, ClientSteps(c)
    PROVE  TypeOK'
  <1>s. Signals = {"SIGPSRP", "SIGCHAN", "SIGINIT"}
    BY DEF Signals
  <1>1. ASSUME NEW at \in Steps, NEW to \in Steps, Begin(c, at, to),
               UNCHANGED <<req, ans>> \/ EmptyFifos
        PROVE  TypeOK'
    <2>1. pc' \in [Clients -> Steps] /\ sigs' \in [Signals -> Nat]
      BY <1>1, <1>s, Stepped, Signalled DEF Begin
    <2>2. req' \in Seq(Lines) /\ ans' \in Seq(Answers) /\ ahead' \in 0..Len(req')
      <3>1. ahead' = ahead
        BY <1>1 DEF Begin, serverVars
      <3>2. << >> \in Seq(Answers) /\ req \in Seq(Lines) /\ ans \in Seq(Answers)
        BY EmptySeq DEF TypeOK
      <3>3. CASE UNCHANGED <<req, ans>>
        BY <3>1, <3>2, <3>3, Reqs
      <3>4. CASE EmptyFifos
        BY <3>1, <3>2, <3>4, Reqs DEF EmptyFifos
      <3> QED
        BY <1>1, <3>3, <3>4
    <2> QED
      BY <1>1, <2>1, <2>2 DEF Begin, serverVars, TypeOK
  <1>2. CASE Open(c) \/ Grab(c) \/ Close(c)
    BY <1>1, <1>2, StepNames DEF Open, Grab, Close
  <1>3. CASE Die(c)
    BY <1>3, StepNames DEF Die, serverVars, TypeOK
  <1>4. CASE Asks(c)
    <2> SUFFICES ASSUME NEW at, NEW to \in Steps, NEW lines \in Seq(Lines),
                        Writes(c, at, lines, to)
                 PROVE  TypeOK'
      <3>1. \A op \in {"OPEN", "GRAB", "CLOSE", "INFO", "REQ"} :
                Line(op, c) \in Lines
        BY DEF Lines, Line
      <3>2. /\ \A op \in {"OPEN", "GRAB", "CLOSE", "INFO", "REQ"} :
                   <<Line(op, c)>> \in Seq(Lines)
            /\ <<Line("GRAB", c), Line("INFO", c)>> \in Seq(Lines)
        BY <3>1
      <3> QED
        BY <1>4, <3>2, StepNames DEF Asks
    <2>1. req \in Seq(Lines)
      BY DEF TypeOK
    <2>2. req \o lines \in Seq(Lines) /\ Len(req \o lines) = Len(req) + Len(lines)
      BY <2>1, Sequences
    <2>3. req' \in Seq(Lines) /\ ahead' \in 0..Len(req')
      BY <2>2, Reqs, LenProperties DEF Writes, serverVars
    <2>4. pc' \in [Clients -> Steps]
      BY Stepped DEF Writes
    <2> QED
      BY <2>3, <2>4 DEF Writes, serverVars, TypeOK
  <1>5. CASE ReadsAny(c)
    <2>1. pc' \in [Clients -> Steps] /\ ans' \in Seq(Answers)
      BY <1>5, Stepped, StepNames, Answering DEF ReadsAny
    <2> QED
      BY <1>5, <2>1 DEF ReadsAny, serverVars, TypeOK
  <1>6. CASE Skips(c)
    <2>1. ans' \in Seq(Answers)
      BY <1>6, Answering DEF Skips
    <2> QED
      BY <1>6, <2>1 DEF Skips, serverVars, TypeOK
  <1>7. CASE Opened(c) \/ Closed(c)
    <2>1. pc' \in [Clients -> Steps] /\ ans' \in Seq(Answers)
      BY <1>7, Stepped, StepNames, Answering DEF Opened, Closed, Answered
    <2> QED
      BY <1>7, <2>1 DEF Opened, Closed, Answered, serverVars, TypeOK
  <1>8. CASE Grabbed(c) \/ Heard(c)
    <2>1. pc' \in [Clients -> Steps] /\ ans' \in Seq(Answers)
      BY <1>8, Stepped, StepNames, Answering DEF Grabbed, Heard, Answered
    <2>2. sigs' \in [Signals -> Nat]
      BY <1>8, <1>s, Signalled DEF Grabbed, Heard
    <2> QED
      BY <1>8, <2>1, <2>2 DEF Grabbed, Heard, Answered, serverVars, TypeOK
  <1>9. CASE Served(c)
    <2>1. pc' \in [Clients -> Steps]
      BY <1>9, Stepped, StepNames DEF Served, Answered
    <2>2. req' \in Seq(Lines) /\ ans' \in Seq(Answers) /\ ahead' \in 0..Len(req')
      BY <1>9, Reqs, EmptySeq DEF Served, Answered, EmptyFifos, serverVars
    <2> QED
      BY <1>9, <2>1, <2>2 DEF Served, Answered, serverVars, TypeOK
  <1> QED
    BY <1>2, <1>3, <1>4, <1>5, <1>6, <1>7, <1>8, <1>9 DEF ClientSteps

LEMMA LineTaken ==
    ASSUME TypeOK, req # << >>, TakesLine
    PROVE  req' \in Seq(Lines) /\ ahead' \in 0..Len(req') /\ Head(req) \in Lines
  BY Reqs DEF TakesLine

LEMMA StreamDropped ==
    ASSUME TypeOK, DropsStream
    PROVE  req' \in Seq(Lines) /\ ahead' \in 0..Len(req')
  BY Reqs, LenProperties DEF DropsStream

LEMMA Replied ==
    ASSUME TypeOK, NEW line \in Answers, Replies(line)
    PROVE  ans' \in Seq(Answers)
  BY Sequences DEF TypeOK, Replies

(* The slots that one run of the homeostat clears. *)
Cleared == {i \in Index : Gone(i) \/ (i = current /\ client[i] = NoPid)}

LEMMA Emptied ==
    ASSUME TypeOK, Homeostat
    PROVE  /\ IsFiniteSet(Cleared) /\ Cardinality(Cleared) \in Nat \ {0}
           /\ client' = [i \in Index |-> IF i \in Cleared THEN NoPid ELSE client[i]]
           /\ count' = Fewer(Cardinality(Cleared))
           /\ open' = (count \notin 1..Cardinality(Cleared))
           /\ mishap' = mishap \cup
                  {"recount" : i \in {j \in Index \cap {current} : client[j] = NoPid}}
           /\ \/ /\ Cleared \cap {current} # {} /\ streams /\ Verbose
                 /\ streams' = FALSE /\ req' = << >> /\ ans' = << >> /\ ahead' = 0
              \/ UNCHANGED <<streams, req, ans, ahead>>
  <1> DEFINE others == {i \in Index \ {current} : Gone(i)}
             mine == {i \in Index \cap {current} : client[i] = NoPid \/ Gone(i)}
  <1>1. Cleared = others \cup mine
    BY DEF Cleared
  <1>2. mine = Cleared \cap {current}
    BY DEF Cleared
  <1>3. {j \in mine : client[j] = NoPid} = {j \in Index \cap {current} : client[j] = NoPid}
    BY DEF Cleared
  <1>4. IsFiniteSet(Index)
    BY FS_Interval, PsrpChannelAssumption DEF Index
  <1>5. IsFiniteSet(Cleared)
    BY <1>4, FS_Subset DEF Cleared
  <1>6. Cardinality(Cleared) \in Nat
    BY <1>5, FS_CardinalityType
  <1>7. Cardinality(others \cup mine) > 0
    BY DEF Homeostat
  <1>8. /\ client' = [i \in Index |-> IF i \in others \cup mine THEN NoPid ELSE client[i]]
        /\ count' = Fewer(Cardinality(others \cup mine))
        /\ open' = (count \notin 1..Cardinality(others \cup mine))
        /\ mishap' = mishap \cup {"recount" : i \in {j \in mine : client[j] = NoPid}}
    BY DEF Homeostat
  <1>9. \/ /\ mine # {} /\ streams /\ Verbose
           /\ streams' = FALSE /\ req' = << >> /\ ans' = << >> /\ ahead' = 0
        \/ UNCHANGED <<streams, req, ans, ahead>>
    BY DEF Homeostat
  <1> HIDE DEF others, mine
  <1> QED
    BY <1>1, <1>2, <1>3, <1>5, <1>6, <1>7, <1>8, <1>9

LEMMA TypeOfServer ==
    ASSUME TypeOK, Server \/ Homeostat \/ HomeostatAstray
    PROVE  TypeOK'
  <1>s. Signals = {"SIGPSRP", "SIGCHAN", "SIGINIT"}
    BY DEF Signals
  <1>a. Answers = {"seg", "connect error", "EOP grope", "EOP chan", "head", "EOP psrp", "EOP close"}
    BY DEF Answers
  <1>1. CASE StartInit
    <2>1. sigs' \in [Signals -> Nat]
      BY <1>1, <1>s, SignalTaken DEF StartInit
    <2> QED
      BY <1>1, <2>1, StreamDropped DEF StartInit, TypeOK
  <1>2. CASE ReadGrope
    <2>1. Head(req) \in Lines /\ Head(req).from \in Clients
      BY <1>2, LineTaken DEF ReadGrope, Lines
    <2>2. current' \in Index
      BY <1>2, <2>1, SlotsFound DEF ReadGrope
    <2>3. count' \in Int /\ count' >= MinCount
      BY <1>2, PsrpChannelAssumption DEF ReadGrope, CountAfterGet, TypeOK
    <2> QED
      BY <1>2, <1>a, <2>2, <2>3, LineTaken, Replied DEF ReadGrope, TypeOK
  <1>3. CASE Refuse
    BY <1>3, <1>a, LineTaken, Replied DEF Refuse, TypeOK
  <1>4. CASE ReadInfo
    <2>1. Head(req).from \in Clients
      BY <1>4, LineTaken DEF ReadInfo, Lines
    <2>2. client' \in [Index -> Clients \cup {NoPid}]
      BY <1>4, <2>1 DEF ReadInfo, TypeOK
    <2> QED
      BY <1>4, <1>a, <2>2, LineTaken, Replied DEF ReadInfo, TypeOK
  <1>5. CASE ReadClose
    <2>1. count' \in Int /\ count' >= MinCount
      BY <1>5, FewerAre DEF ReadClose, TypeOK
    <2>2. client' \in [Index -> Clients \cup {NoPid}]
      BY <1>5 DEF ReadClose, TypeOK
    <2>3. current' \in Index \cup {-1}
      <3>1. current' = 0 \/ current' = -1
        BY <1>5 DEF ReadClose
      <3> QED
        BY <3>1, PsrpChannelAssumption DEF Index
    <2>4. mishap' \subseteq {"died", "refused", "astray", "recount"}
      <3>1. mishap' \subseteq mishap \cup {"astray", "recount"}
        BY <1>5 DEF ReadClose
      <3> QED
        BY <3>1 DEF TypeOK
    <2> QED
      BY <1>5, <1>a, <2>1, <2>2, <2>3, <2>4, LineTaken, Replied DEF ReadClose, TypeOK
  <1>6. CASE ReadOther
    BY <1>6, <1>a, LineTaken, Replied DEF ReadOther, TypeOK
  <1>7. CASE Chan
    <2>1. sigs' \in [Signals -> Nat]
      BY <1>7, <1>s, SignalTaken DEF Chan
    <2> QED
      BY <1>7, <1>a, <2>1, StreamDropped, Replied DEF Chan, TypeOK
  <1>8. CASE Finish
    BY <1>8, StreamDropped DEF Finish, TypeOK
  <1>9. CASE StartPsrp
    <2>1. sigs' \in [Signals -> Nat]
      BY <1>9, <1>s, SignalTaken DEF StartPsrp
    <2>2. ans' \in Seq(Answers)
      BY <1>9, <1>a, Replied DEF StartPsrp, TypeOK
    <2> QED
      BY <1>9, <2>1, <2>2 DEF StartPsrp, TypeOK
  <1>10. CASE ReadRequest
    BY <1>10, <1>a, LineTaken, Replied DEF ReadRequest, TypeOK
  <1>11. CASE Homeostat
    <2>1. count' \in Int /\ count' >= MinCount
      BY <1>11, Emptied, FewerAre DEF TypeOK
    <2>2. client' \in [Index -> Clients \cup {NoPid}]
      BY <1>11, Emptied DEF TypeOK
    <2>3. open' \in BOOLEAN
      BY <1>11, Emptied
    <2>4. mishap' \subseteq {"died", "refused", "astray", "recount"}
      <3>1. mishap' \subseteq mishap \cup {"recount"}
        <4>1. mishap' = mishap \cup
                  {"recount" : i \in {j \in Index \cap {current} : client[j] = NoPid}}
          BY <1>11, Emptied
        <4> QED
          BY <4>1
      <3> QED
        BY <3>1 DEF TypeOK
    <2>5. req' \in Seq(Lines) /\ ans' \in Seq(Answers) /\ ahead' \in 0..Len(req')
          /\ streams' \in BOOLEAN
      <3>1. << >> \in Seq(Lines) /\ << >> \in Seq(Answers) /\ Len(<< >>) = 0
        BY EmptySeq
      <3>2. CASE UNCHANGED <<streams, req, ans, ahead>>
        BY <3>2 DEF TypeOK
      <3>3. CASE streams' = FALSE /\ req' = << >> /\ ans' = << >> /\ ahead' = 0
        <4>1. Len(req') = 0 /\ ahead' = 0
          BY <3>1, <3>3
        <4>2. ahead' \in 0..Len(req')
          BY <4>1
        <4> QED
          BY <3>1, <3>3, <4>2
      <3> QED
        BY <1>11, <3>2, <3>3, Emptied
    <2> QED
      BY <1>11, <2>1, <2>2, <2>3, <2>4, <2>5 DEF Homeostat, TypeOK
  <1>12. CASE HomeostatAstray
    BY <1>12 DEF HomeostatAstray, TypeOK
  <1> QED
    BY <1>1, <1>2, <1>3, <1>4, <1>5, <1>6, <1>7, <1>8, <1>9, <1>10, <1>11, <1>12 DEF Server

-----------------------------------------------------------------------------
(* Turns. *)

LEMMA SignalsTurn ==
    ASSUME NEW s \in Signals
    PROVE  /\ Quiet /\ Kill(s) => Pending(s)'
           /\ Quiet => ~Takes(s)
           /\ ~(Quiet /\ Pending(s))
           /\ \A t \in Signals : Pending(t) /\ Takes(s) => s = t /\ Quiet'
           /\ \A t \in Signals : Pending(t) /\ Pending(s) => s = t
  <1>1. Quiet /\ Kill(s) => Pending(s)'
    BY DEF Quiet, Kill, Pending
  <1>2. Quiet => ~Takes(s)
    BY DEF Quiet, Takes
  <1>3. ~(Quiet /\ Pending(s))
    BY DEF Quiet, Pending
  <1>4. ASSUME NEW t \in Signals, Pending(t), Takes(s) PROVE s = t /\ Quiet'
    BY <1>4 DEF Pending, Takes, Quiet
  <1>5. ASSUME NEW t \in Signals, Pending(t), Pending(s) PROVE s = t
    BY <1>5 DEF Pending
  <1> QED
    BY <1>1, <1>2, <1>3, <1>4, <1>5

LEMMA OneLine ==
    ASSUME NEW op, NEW c
    PROVE  /\ <<Line(op, c)>> # << >>
           /\ Head(<<Line(op, c)>>).op = op /\ Head(<<Line(op, c)>>).from = c
           /\ Tail(<<Line(op, c)>>) = << >>
           /\ << >> \o <<Line(op, c)>> = <<Line(op, c)>>
  <1> DEFINE x == Line(op, c)
  <1>1. x.op = op /\ x.from = c
    BY DEF Line
  <1> HIDE DEF x
  <1>2. <<x>> # << >> /\ Head(<<x>>) = x /\ Tail(<<x>>) = << >> /\ << >> \o <<x>> = <<x>>
    BY Short
  <1> QED
    BY <1>1, <1>2 DEF x

(* One line written to an empty FIFO is all there is in it. *)
LEMMA WroteLine ==
    ASSUME NEW c, NEW at, NEW op, NEW to, req = << >>, Writes(c, at, <<Line(op, c)>>, to)
    PROVE  req' = <<Line(op, c)>>
  <1>1. req' = req \o <<Line(op, c)>>
    BY DEF Writes
  <1> QED
    BY <1>1, OneLine

LEMMA TwoLines ==
    ASSUME NEW c
    PROVE  LET lines == <<Line("GRAB", c), Line("INFO", c)>>
           IN  /\ lines # << >>
               /\ Head(lines).op = "GRAB" /\ Head(lines).from = c
               /\ Tail(lines) = <<Line("INFO", c)>>
               /\ << >> \o lines = lines
  <1> DEFINE x == Line("GRAB", c)
             y == Line("INFO", c)
  <1>1. x.op = "GRAB" /\ x.from = c
    BY DEF Line
  <1> HIDE DEF x, y
  <1>2. /\ <<x, y>> # << >> /\ Head(<<x, y>>) = x /\ Tail(<<x, y>>) = <<y>>
        /\ << >> \o <<x, y>> = <<x, y>>
    BY Short
  <1> QED
    BY <1>1, <1>2 DEF x, y

(* The lines an operation begins with. *)
LEMMA SentLines ==
    ASSUME Sent, req # << >>
    PROVE  \/ /\ pc[lock] = "seg" /\ Head(req).op = "OPEN" /\ Head(req).from = lock
              /\ Tail(req) = << >>
           \/ /\ pc[lock] = "grope to chan" /\ Head(req).op = "GRAB" /\ Head(req).from = lock
              /\ Tail(req) = <<Line("INFO", lock)>>
           \/ /\ pc[lock] = "close to off" /\ Head(req).op = "CLOSE" /\ Head(req).from = lock
              /\ Tail(req) = << >>
  <1>1. CASE req = <<Line("OPEN", lock)>> /\ pc[lock] = "seg"
    BY <1>1, OneLine, Zenon
  <1>2. CASE req = <<Line("CLOSE", lock)>> /\ pc[lock] = "close to off"
    BY <1>2, OneLine, Zenon
  <1>3. CASE req = <<Line("GRAB", lock), Line("INFO", lock)>> /\ pc[lock] = "grope to chan"
    BY <1>3, TwoLines, Zenon
  <1> QED
    BY <1>1, <1>2, <1>3, Zenon DEF Sent

LEMMA Turn ==
    ASSUME TypeOK, InTurn, "died" \notin mishap, "refused" \notin mishap
    PROVE  /\ sv = "op" => lock # NoPid /\ Listening
           /\ sv = "info" => lock # NoPid /\ Informing
           /\ sv = "req" => lock # NoPid /\ Requesting
           /\ sv \notin {"null stream", "bad index"}
           /\ Takes("SIGINIT") => lock # NoPid /\ Calling
           /\ Takes("SIGCHAN") => lock # NoPid /\ Hailing
           /\ Takes("SIGPSRP") => lock # NoPid /\ Prompting
           /\ current \in Index
  <1>1. /\ current \in Index
        /\ lock = NoPid => Rest
        /\ lock # NoPid => Phase
    BY DEF InTurn
  <1>2. {"SIGINIT", "SIGCHAN", "SIGPSRP"} = Signals
    BY DEF Signals
  <1>3. /\ sv = "op" => lock # NoPid /\ Listening
        /\ sv = "info" => lock # NoPid /\ Informing
        /\ sv = "req" => lock # NoPid /\ Requesting
        /\ sv \notin {"null stream", "bad index"}
    BY <1>1 DEF Phase, Rest, AtRest, Calling, Listening, Informing, Groped, Hailing, Hailed,
           Prompting, Requesting, Done
  <1>4. \/ Quiet
        \/ lock # NoPid /\ Pending("SIGINIT") /\ Calling
        \/ lock # NoPid /\ Pending("SIGCHAN") /\ Hailing
        \/ lock # NoPid /\ Pending("SIGPSRP") /\ Prompting
    BY <1>1 DEF Phase, Rest, Calling, Listening, Informing, Groped, Hailing, Hailed,
           Prompting, Requesting, Done
  <1>5. \A s \in Signals : Takes(s) =>
            ~Quiet /\ \A t \in Signals : Pending(t) => s = t
    BY SignalsTurn
  <1> QED
    BY <1>1, <1>2, <1>3, <1>4, <1>5

(* What a step of the server does to the turns, by what it finds.            *)
LEMMA TurnOfServer ==
    ASSUME TypeOK, InTurn, Server \/ Homeostat \/ HomeostatAstray
    PROVE  InTurn'
  <1> SUFFICES ASSUME "died" \notin mishap'
               PROVE  /\ \A c \in Clients : c # lock' => pc'[c] \in Apart
                      /\ "refused" \in mishap' => lock' # NoPid /\ Stranded'
                      /\ "refused" \notin mishap' =>
                             /\ current' \in Index
                             /\ lock' = NoPid => Rest'
                             /\ lock' # NoPid => Phase'
    BY DEF InTurn
  <1>1. UNCHANGED <<pc, lock>> /\ mishap \subseteq mishap'
    <2>1. Homeostat => mishap \subseteq mishap'
      BY DEF Homeostat
    <2>2. ReadClose => mishap \subseteq mishap'
      BY DEF ReadClose
    <2> QED
      BY <2>1, <2>2 DEF Server, StartInit, ReadGrope, Refuse, ReadInfo, ReadClose, ReadOther, Chan,
             Finish, StartPsrp, ReadRequest, Homeostat, HomeostatAstray
  <1>2. "died" \notin mishap
    BY <1>1
  <1>3. \A c \in Clients : c # lock' => pc'[c] \in Apart
    BY <1>1, <1>2 DEF InTurn
  <1>s. {"SIGINIT", "SIGCHAN", "SIGPSRP"} = Signals
    BY DEF Signals
  <1>4. CASE "refused" \in mishap
    <2>1. lock # NoPid /\ Stranded
      BY <1>2, <1>4 DEF InTurn
    <2>2. /\ Quiet /\ \A s \in Signals : ~Takes(s)
          /\ sv \in {"closing", "main", "bad index"}
      BY <2>1, SignalsTurn DEF Stranded
    <2>3. Finish \/ Homeostat \/ HomeostatAstray
      BY <2>2, <1>s DEF Server, StartInit, ReadGrope, Refuse, ReadInfo, ReadClose, ReadOther, Chan,
             StartPsrp, ReadRequest
    <2>4. UNCHANGED sigs /\ sv' \in {"closing", "main", "bad index"} /\ (ans' = ans \/ ans' = << >>)
      BY <2>2, <2>3 DEF Finish, Homeostat, HomeostatAstray
    <2>5. Stranded'
      BY <1>1, <2>1, <2>4 DEF Stranded, Quiet
    <2> QED
      BY <1>1, <1>3, <1>4, <2>1, <2>5
  <1>5. CASE "refused" \notin mishap
    <2>t. /\ sv = "op" => lock # NoPid /\ Listening
          /\ sv = "info" => lock # NoPid /\ Informing
          /\ sv = "req" => lock # NoPid /\ Requesting
          /\ sv \notin {"null stream", "bad index"}
          /\ Takes("SIGINIT") => lock # NoPid /\ Calling
          /\ Takes("SIGCHAN") => lock # NoPid /\ Hailing
          /\ Takes("SIGPSRP") => lock # NoPid /\ Prompting
          /\ current \in Index
      BY <1>2, <1>5, Turn
    <2>r. req \in Seq(Lines) /\ ahead \in 0..Len(req) /\ SubSeq(req, 0 + 1, Len(req)) = req
          /\ (req = << >> => SubSeq(req, ahead + 1, Len(req)) = << >>)
      BY Kept DEF TypeOK
    <2>1. CASE StartInit
      <3>1. Takes("SIGINIT") /\ Calling /\ lock # NoPid
        BY <2>1, <2>t DEF StartInit
      <3>2. Quiet'
        BY <1>s, <3>1, SignalsTurn DEF Calling
      <3>3. req' = req /\ ahead' = 0
        BY <2>1, <2>r, <3>1 DEF StartInit, DropsStream, Calling
      <3>4. Listening'
        BY <1>1, <2>1, <3>1, <3>2, <3>3 DEF StartInit, Calling, Listening, Sent
      <3> QED
        BY <1>1, <1>3, <1>5, <2>1, <2>t, <3>1, <3>4 DEF Phase, StartInit
    <2>2. CASE ReadGrope
      <3>1. Listening /\ lock # NoPid
        BY <2>2, <2>t DEF ReadGrope
      <3>2. /\ Head(req).from = lock
            /\ \/ pc[lock] = "seg" /\ Tail(req) = << >>
               \/ pc[lock] = "grope to chan" /\ Tail(req) = <<Line("INFO", lock)>>
        BY <2>2, <3>1, SentLines DEF ReadGrope, Listening
      <3>4. ans' = <<"seg">>
        BY <2>2, <3>1, Short DEF ReadGrope, Replies, Listening
      <3>5. \/ pc[lock] = "seg" /\ req' = << >>
            \/ pc[lock] = "grope to chan" /\ req' = <<Line("INFO", lock)>>
        BY <2>2, <3>2 DEF ReadGrope, TakesLine
      <3>6. current' \in Index /\ client[current'] \in {NoPid, lock}
        <4>1. lock \in Clients
          BY <3>1 DEF TypeOK
        <4>2. current' = GetSlot(lock) /\ GetSlot(lock) # ENOCH
          BY <2>2, <3>2 DEF ReadGrope
        <4>3. GetSlot(lock) \in Index /\ GetSlot(lock) \in Known(lock) \cup Free
          BY <4>1, <4>2, SlotsFound
        <4> QED
          BY <4>2, <4>3 DEF Known, Free
      <3>7. Informing'
        BY <1>1, <2>2, <3>1, <3>4, <3>5, <3>6 DEF ReadGrope, Listening, Informing, Quiet
      <3> QED
        BY <1>1, <1>3, <1>5, <2>2, <3>1, <3>6, <3>7 DEF Phase, ReadGrope
    <2>3. CASE Refuse
      <3>1. Listening /\ lock # NoPid
        BY <2>3, <2>t DEF Refuse
      <3>2. pc[lock] \in {"seg", "grope to chan"}
        BY <2>3, <3>1, SentLines DEF Refuse, Listening
      <3>3. ans' = <<"connect error">>
        BY <2>3, <3>1, Short DEF Refuse, Replies, Listening
      <3>4. Stranded'
        BY <1>1, <2>3, <3>1, <3>2, <3>3 DEF Refuse, Listening, Stranded, Quiet
      <3> QED
        BY <1>1, <1>3, <2>3, <3>1, <3>4 DEF Refuse
    <2>4. CASE ReadInfo
      <3>1. Informing /\ lock # NoPid
        BY <2>4, <2>t DEF ReadInfo
      <3>2. req = <<Line("INFO", lock)>>
        BY <2>4, <3>1 DEF ReadInfo, Informing
      <3>3. Head(req).op # "REQ" /\ Head(req).from = lock /\ Tail(req) = << >>
        BY <3>2, OneLine
      <3>4. client'[current] = lock
        BY <2>4, <2>t, <3>3 DEF ReadInfo, TypeOK
      <3>5. \/ pc[lock] = "grope to idle" /\ ans' = <<"EOP grope">>
            \/ pc[lock] = "grope to chan" /\ ans' \in {<<"EOP grope">>, <<"seg", "EOP grope">>}
        <4>1. ans' = Append(ans, "EOP grope")
          BY <2>4 DEF ReadInfo, Replies
        <4>2. /\ Append(<< >>, "EOP grope") = <<"EOP grope">>
              /\ Append(<<"seg">>, "EOP grope") = <<"seg", "EOP grope">>
          BY Short, Zenon
        <4>3. \/ pc[lock] = "grope to idle" /\ ans = << >>
              \/ pc[lock] = "grope to chan" /\ (ans = << >> \/ ans = <<"seg">>)
          BY <3>1, <3>2, OneLine DEF Informing
        <4> QED
          BY <4>1, <4>2, <4>3, Zenon
      <3>6. Groped'
        BY <1>1, <2>4, <2>t, <3>1, <3>3, <3>4, <3>5
           DEF ReadInfo, Informing, Groped, Quiet, AtRest, HasSlot, TakesLine
      <3> QED
        BY <1>1, <1>3, <1>5, <2>4, <2>t, <3>1, <3>6 DEF Phase, ReadInfo
    <2>5. CASE ReadClose
      <3>1. Listening /\ lock # NoPid
        BY <2>5, <2>t DEF ReadClose
      <3>2. pc[lock] = "close to off" /\ Tail(req) = << >>
        BY <2>5, <3>1, SentLines DEF ReadClose, Listening
      <3>3. req' = << >>
        BY <2>5, <3>2 DEF ReadClose, TakesLine
      <3>4. ans' = <<"EOP close">>
        BY <2>5, <3>1, Short DEF ReadClose, Replies, Listening
      <3>5. current' \in Index /\ "refused" \notin mishap'
        <4>1. current' = 0
          BY <2>5, <2>t DEF ReadClose
        <4>2. mishap' \subseteq mishap \cup {"astray", "recount"}
          BY <2>5 DEF ReadClose
        <4> QED
          BY <1>5, <4>1, <4>2, PsrpChannelAssumption DEF Index
      <3>6. Done'
        BY <1>1, <2>5, <3>1, <3>2, <3>3, <3>4 DEF ReadClose, Listening, Done, Quiet, AtRest
      <3> QED
        BY <1>1, <1>3, <3>1, <3>5, <3>6 DEF Phase
    <2>6. CASE ReadOther
      <3>1. Listening /\ lock # NoPid
        BY <2>6, <2>t DEF ReadOther
      <3> QED
        BY <2>6, <3>1, SentLines DEF ReadOther, Listening
    <2>7. CASE Chan
      <3>1. Takes("SIGCHAN") /\ Hailing /\ lock # NoPid
        BY <2>7, <2>t DEF Chan
      <3>2. Quiet'
        BY <1>s, <3>1, SignalsTurn DEF Hailing
      <3>3. req' = << >> /\ ans' = <<"EOP chan">>
        BY <2>7, <2>r, <3>1, Short DEF Chan, DropsStream, Replies, Hailing
      <3>4. Hailed'
        BY <1>1, <2>7, <3>1, <3>2, <3>3 DEF Chan, Takes, Hailing, Hailed, HasSlot
      <3> QED
        BY <1>1, <1>3, <1>5, <2>7, <2>t, <3>1, <3>4 DEF Phase, Chan
    <2>8. CASE Finish
      <3>1. req' = IF ahead = 0 THEN req ELSE SubSeq(req, ahead + 1, Len(req))
        BY <2>8, <2>r DEF Finish, DropsStream
      <3>2. UNCHANGED <<pc, lock, ans, sigs, client, current>> /\ ahead' = 0 /\ AtRest'
            /\ sv = "closing"
        BY <2>8 DEF Finish, DropsStream, AtRest
      <3>3. CASE lock = NoPid
        <4>1. Rest'
          BY <1>2, <1>5, <2>r, <3>1, <3>2, <3>3 DEF InTurn, Rest, Quiet
        <4> QED
          BY <1>1, <1>3, <1>5, <2>8, <2>t, <3>3, <4>1 DEF Finish
      <3>4. CASE lock # NoPid
        <4>1. Calling \/ Groped \/ Hailing \/ Done
          BY <1>2, <1>5, <3>2, <3>4 DEF InTurn, Phase, Listening, Informing, Hailed, Prompting,
             Requesting
        <4>2. ASSUME Calling PROVE Phase'
          <5>1. Calling'
            BY <3>1, <3>2, <4>2 DEF Calling, Pending, Sent
          <5> QED
            BY <5>1 DEF Phase
        <4>3. ASSUME Groped PROVE Phase'
          <5>1. Groped'
            BY <2>r, <3>1, <3>2, <4>3 DEF Groped, Quiet, HasSlot
          <5> QED
            BY <5>1 DEF Phase
        <4>4. ASSUME Hailing PROVE Phase'
          <5>1. Hailing'
            BY <2>r, <3>1, <3>2, <4>4 DEF Hailing, Pending, HasSlot
          <5> QED
            BY <5>1 DEF Phase
        <4>5. ASSUME Done PROVE Phase'
          <5>1. Done'
            BY <2>r, <3>1, <3>2, <4>5 DEF Done, Quiet
          <5> QED
            BY <5>1 DEF Phase
        <4>6. Phase'
          BY <4>1, <4>2, <4>3, <4>4, <4>5
        <4> QED
          BY <1>1, <1>3, <1>5, <2>8, <2>t, <3>4, <4>6 DEF Finish
      <3> QED
        BY <3>3, <3>4
    <2>9. CASE StartPsrp
      <3>1. Takes("SIGPSRP") /\ Prompting /\ lock # NoPid
        BY <2>9, <2>t DEF StartPsrp
      <3>2. Quiet'
        BY <1>s, <3>1, SignalsTurn DEF Prompting
      <3>3. ans' = <<"head">> /\ sv' = "req"
        BY <2>9, <3>1, Short DEF StartPsrp, Replies, Prompting
      <3>4. Requesting'
        BY <1>1, <2>9, <3>1, <3>2, <3>3 DEF StartPsrp, Prompting, Requesting, HasSlot
      <3> QED
        BY <1>1, <1>3, <1>5, <2>9, <2>t, <3>1, <3>4 DEF Phase, StartPsrp
    <2>10. CASE ReadRequest
      <3>1. Requesting /\ lock # NoPid
        BY <2>10, <2>t DEF ReadRequest
      <3>2. pc[lock] = "psrp" /\ req = <<Line("REQ", lock)>> /\ ans = << >>
        BY <2>10, <3>1 DEF ReadRequest, Requesting
      <3>3. req' = << >> /\ ans' = <<"EOP psrp">>
        BY <2>10, <3>2, OneLine, Short DEF ReadRequest, TakesLine, Replies
      <3>4. Done'
        BY <1>1, <2>10, <3>1, <3>2, <3>3 DEF ReadRequest, Requesting, Done, Quiet, AtRest
      <3> QED
        BY <1>1, <1>3, <1>5, <2>10, <2>t, <3>1, <3>4 DEF Phase, ReadRequest
    <2>11. CASE Homeostat
      <3>1. sv = "main" /\ UNCHANGED <<pc, lock, sigs, sv, current>>
        BY <2>11 DEF Homeostat
      <3>2. "refused" \notin mishap'
        BY <1>5, <2>11, Emptied
      <3>3. \A i \in Index : client[i] # NoPid /\ pc[client[i]] # "dead" => client'[i] = client[i]
        BY <2>11, Emptied DEF Cleared, Gone
      <3>4. \/ UNCHANGED <<streams, req, ans, ahead>>
            \/ streams /\ (client[current] = NoPid \/ pc[client[current]] = "dead")
        BY <2>11, <2>t, Emptied DEF Cleared, Gone
      <3>5. CASE lock = NoPid
        <4>1. Rest
          BY <1>2, <1>5, <3>5 DEF InTurn
        <4>2. UNCHANGED <<streams, req, ans, ahead>>
          BY <3>1, <3>4, <4>1 DEF Rest, AtRest
        <4>3. Rest'
          BY <3>1, <4>1, <4>2 DEF Rest, AtRest, Quiet
        <4> QED
          BY <1>1, <1>3, <2>t, <3>1, <3>2, <3>5, <4>3
      <3>6. CASE lock # NoPid
        <4>1. \/ Calling \/ Groped \/ Hailing \/ Hailed
              \/ Prompting \/ Done
          BY <1>2, <1>5, <3>1, <3>6 DEF InTurn, Phase, Listening, Informing, Requesting
        <4>2. UNCHANGED <<streams, req, ans, ahead>>
          <5>1. CASE Calling \/ Groped \/ Hailing \/ Done
            BY <3>1, <3>4, <5>1 DEF Calling, Groped, Hailing, Done, AtRest
          <5>2. CASE Hailed \/ Prompting
            <6>1. client[current] = lock /\ pc[lock] # "dead"
              BY <5>2 DEF Hailed, Prompting, HasSlot
            <6> QED
              BY <3>4, <3>6, <6>1
          <5> QED
            BY <4>1, <5>1, <5>2
        <4>3. HasSlot /\ pc[lock] # "dead" => HasSlot'
          BY <3>1, <3>3, <3>6 DEF HasSlot
        <4>4. ASSUME Calling PROVE Phase'
          <5>1. Calling'
            BY <3>1, <4>2, <4>4 DEF Calling, Pending, AtRest, Sent
          <5> QED
            BY <5>1 DEF Phase
        <4>5. ASSUME Groped PROVE Phase'
          <5>1. HasSlot'
            BY <4>3, <4>5 DEF Groped
          <5>2. Groped'
            BY <3>1, <4>2, <4>5, <5>1 DEF Groped, Quiet, AtRest
          <5> QED
            BY <5>2 DEF Phase
        <4>6. ASSUME Hailing PROVE Phase'
          <5>1. HasSlot'
            BY <4>3, <4>6 DEF Hailing
          <5>2. Hailing'
            BY <3>1, <4>2, <4>6, <5>1 DEF Hailing, Pending, AtRest
          <5> QED
            BY <5>2 DEF Phase
        <4>7. ASSUME Hailed PROVE Phase'
          <5>1. HasSlot'
            BY <4>3, <4>7 DEF Hailed
          <5>2. Hailed'
            BY <3>1, <4>2, <4>7, <5>1 DEF Hailed, Quiet
          <5> QED
            BY <5>2 DEF Phase
        <4>8. ASSUME Prompting PROVE Phase'
          <5>1. HasSlot'
            BY <4>3, <4>8 DEF Prompting
          <5>2. Prompting'
            BY <3>1, <4>2, <4>8, <5>1 DEF Prompting, Pending
          <5> QED
            BY <5>2 DEF Phase
        <4>9. ASSUME Done PROVE Phase'
          <5>1. Done'
            BY <3>1, <4>2, <4>9 DEF Done, Quiet, AtRest
          <5> QED
            BY <5>1 DEF Phase
        <4>10. Phase'
          BY <4>1, <4>4, <4>5, <4>6, <4>7, <4>8, <4>9
        <4> QED
          BY <1>3, <2>t, <3>1, <3>2, <3>6, <4>10
      <3> QED
        BY <3>5, <3>6
    <2>12. CASE HomeostatAstray
      BY <2>12, <2>t DEF HomeostatAstray
    <2> QED
      BY <2>1, <2>2, <2>3, <2>4, <2>5, <2>6, <2>7, <2>8, <2>9, <2>10, <2>11, <2>12 DEF Server
  <1> QED
    BY <1>4, <1>5

LEMMA Holds ==
    ASSUME TypeOK, InTurn, "died" \notin mishap, NEW c \in Clients, pc[c] \notin Apart
    PROVE  /\ lock = c /\ lock # NoPid
           /\ "refused" \in mishap => Stranded
           /\ "refused" \notin mishap => current \in Index /\ Phase
  BY PsrpChannelAssumption DEF InTurn

(* What a step of a client does to the turns.                                *)
LEMMA TurnOfClients ==
    ASSUME TypeOK, InTurn, NEW c \in Clients, ClientSteps(c)
    PROVE  InTurn'
  <1> SUFFICES ASSUME "died" \notin mishap'
               PROVE  InTurn'
    BY DEF InTurn
  <1> USE DEF Goes
  <1>t. /\ pc \in [Clients -> Steps] /\ c # NoPid
        /\ Signals = {"SIGPSRP", "SIGCHAN", "SIGINIT"}
    BY PsrpChannelAssumption DEF TypeOK, Signals
  <1>1. ASSUME NEW at \in Apart, NEW to \in {"open", "grab", "close"}, Begin(c, at, to),
               UNCHANGED <<req, ans>> \/ EmptyFifos
        PROVE  InTurn'
    <2>1. /\ lock = NoPid /\ lock' = c /\ pc' = [pc EXCEPT ![c] = to]
          /\ Kill("SIGINIT") /\ UNCHANGED <<serverVars, mishap>>
      BY <1>1 DEF Begin
    <2>2. "refused" \notin mishap /\ Rest /\ current \in Index
      BY <2>1 DEF InTurn
    <2>3. req' = << >> /\ ans' = << >> /\ ahead' = 0 /\ ahead = 0
      <3>1. req = << >> /\ req \in Seq(Lines) /\ ahead \in 0..Len(req)
        BY <2>2 DEF Rest, TypeOK
      <3>2. ahead = 0 /\ SubSeq(req, 1, ahead) = << >>
        BY <3>1, Kept
      <3> QED
        BY <1>1, <2>1, <2>2, <3>2 DEF EmptyFifos, Rest, serverVars
    <2>4. Pending("SIGINIT")'
      BY <1>t, <2>1, <2>2, SignalsTurn DEF Rest
    <2>5. pc'[lock'] \in {"open", "grab", "close"} /\ AtRest'
      BY <1>t, <2>1, <2>2 DEF Rest, AtRest, serverVars
    <2>6. Calling'
      BY <2>3, <2>4, <2>5 DEF Calling, Sent
    <2>7. \A d \in Clients : d # lock' => pc'[d] \in Apart
      BY <1>t, <2>1, <2>2, PsrpChannelAssumption DEF InTurn
    <2> QED
      BY <1>t, <2>1, <2>2, <2>6, <2>7 DEF InTurn, Phase, serverVars
  <1>2. CASE Open(c) \/ Grab(c) \/ Close(c)
    BY <1>1, <1>2 DEF Open, Grab, Close, Apart
  <1>3. CASE Die(c)
    <2>1. lock # c /\ pc' = [pc EXCEPT ![c] = "dead"] /\ UNCHANGED <<req, ans, sigs, serverVars, lock, mishap>>
      BY <1>3 DEF Die
    <2>2. lock # NoPid => pc'[lock] = pc[lock]
      BY <1>t, <2>1 DEF TypeOK
    <2>3. /\ Stranded => lock = NoPid \/ Stranded'
          /\ Rest => Rest'
      BY <2>1, <2>2 DEF Stranded, Rest, Quiet, AtRest, serverVars
    <2>4. Phase => lock = NoPid \/ Phase'
      <3> SUFFICES ASSUME Phase, lock # NoPid PROVE Phase'
        OBVIOUS
      <3>1. /\ pc'[lock'] = pc[lock]
            /\ UNCHANGED <<req, ans, sigs, sv, streams, ahead, client, current, lock>>
        BY <2>1, <2>2 DEF serverVars
      <3>2. Calling \/ Listening => Calling' \/ Listening'
        BY <3>1 DEF Calling, Listening, Quiet, Pending, AtRest, Sent
      <3>3. Informing => Informing'
        BY <3>1 DEF Informing, Quiet
      <3>4. Groped \/ Hailing \/ Hailed => Groped' \/ Hailing' \/ Hailed'
        BY <3>1 DEF Groped, Hailing, Hailed, Quiet, Pending, AtRest, HasSlot
      <3>5. Prompting \/ Requesting \/ Done => Prompting' \/ Requesting' \/ Done'
        BY <3>1 DEF Prompting, Requesting, Done, Quiet, Pending, AtRest, HasSlot
      <3> QED
        BY <3>2, <3>3, <3>4, <3>5 DEF Phase
    <2>5. \A d \in Clients : d # lock' => pc'[d] \in Apart
      BY <1>t, <2>1 DEF InTurn, Apart
    <2> QED
      BY <2>1, <2>3, <2>4, <2>5 DEF InTurn, serverVars
  <1>4. CASE Asks(c) \/ ReadsAny(c) \/ Skips(c) \/ Opened(c) \/ Closed(c) \/ Grabbed(c) \/ Heard(c) \/ Served(c)
    <2>1. pc[c] \notin Apart /\ UNCHANGED <<serverVars, mishap>>
      BY <1>4 DEF Asks, Writes, ReadsAny, Skips, Opened, Closed, Grabbed, Heard, Served, Answered, Awaited, Apart
    <2>2. /\ lock = c /\ lock # NoPid
          /\ "refused" \in mishap => Stranded
          /\ "refused" \notin mishap => current \in Index /\ Phase
      BY <2>1, Holds
    <2>3. \A d \in Clients : d # c => pc'[d] \in Apart
      <3>1. \A d \in Clients : d # c => pc'[d] = pc[d]
        BY <1>4, <1>t DEF Asks, Writes, ReadsAny, Skips, Opened, Closed, Grabbed, Heard, Served, Answered
      <3> QED
        BY <2>1, <2>2, <3>1 DEF InTurn
    <2>s. UNCHANGED <<sv, streams, ahead, client, current, mishap>>
      BY <2>1 DEF serverVars
    <2>k. lock' = c /\ Phase' /\ "refused" \notin mishap => InTurn'
      BY <2>2, <2>3, <2>s DEF InTurn
    <2>f. lock' = NoPid /\ Rest' /\ pc'[c] \in Apart /\ "refused" \notin mishap => InTurn'
      BY <2>2, <2>3, <2>s DEF InTurn
    <2>4. CASE "refused" \in mishap
      <3>1. Stranded /\ (ans # << >> => Head(ans) = "connect error" /\ Tail(ans) = << >>)
        BY <2>2, <2>4, Short DEF Stranded
      <3>2. Asks(c) \/ ReadsAny(c) \/ Skips(c)
        BY <1>4, <2>2, <3>1 DEF Opened, Closed, Grabbed, Heard, Served, Answered, Stranded, Awaited
      <3>3. lock' = c /\ UNCHANGED sigs
        BY <2>2, <3>2 DEF Asks, Writes, ReadsAny, Skips
      <3>4. ans' \in {<< >>, <<"connect error">>}
        BY <3>1, <3>2 DEF Asks, Writes, ReadsAny, Skips, Stranded
      <3>5. pc'[c] \in {"seg", "info", "grope to idle", "grope to chan"}
        BY <1>t, <2>2, <3>1, <3>2 DEF Asks, Writes, ReadsAny, Skips, Stranded
      <3>6. Stranded'
        BY <2>s, <3>1, <3>3, <3>4, <3>5 DEF Stranded, Quiet
      <3> QED
        BY <2>2, <2>3, <2>4, <2>s, <3>3, <3>6 DEF InTurn
    <2>5. CASE "refused" \notin mishap
      <3>p. Phase /\ current \in Index
        BY <2>2, <2>5
      <3>1. CASE Asks(c)
        <4>1. lock' = c /\ UNCHANGED <<ans, sigs>>
          BY <2>2, <3>1 DEF Asks, Writes
        <4>q. (Quiet => Quiet') /\ (Pending("SIGINIT") => Pending("SIGINIT")') /\ (AtRest => AtRest')
          BY <2>s, <4>1 DEF Quiet, Pending, AtRest
        <4>2. CASE Writes(c, "open", <<Line("OPEN", c)>>, "seg")
          <5>1. (Calling \/ Listening) /\ req = << >> /\ pc'[c] = "seg"
            BY <1>t, <2>2, <3>p, <4>2
               DEF Writes, Phase, Calling, Listening, Informing, Groped, Hailing, Hailed,
                   Prompting, Requesting, Done, Sent
          <5>2. req' = <<Line("OPEN", c)>>
            BY <4>2, <5>1, WroteLine
          <5>3. Sent'
            BY <4>1, <5>1, <5>2 DEF Sent
          <5>4. Calling' \/ Listening'
            BY <2>s, <4>1, <4>q, <5>1, <5>3 DEF Calling, Listening
          <5> QED
            BY <2>5, <2>k, <4>1, <5>4 DEF Phase
        <4>3. CASE Writes(c, "grab", <<Line("GRAB", c), Line("INFO", c)>>, "grope to chan")
          <5>1. (Calling \/ Listening) /\ req = << >> /\ pc'[c] = "grope to chan"
            BY <1>t, <2>2, <3>p, <4>3
               DEF Writes, Phase, Calling, Listening, Informing, Groped, Hailing, Hailed,
                   Prompting, Requesting, Done, Sent
          <5>2. req' = <<Line("GRAB", c), Line("INFO", c)>>
            BY <4>3, <5>1, TwoLines, Zenon DEF Writes
          <5>3. Sent'
            BY <4>1, <5>1, <5>2 DEF Sent
          <5>4. Calling' \/ Listening'
            BY <2>s, <4>1, <4>q, <5>1, <5>3 DEF Calling, Listening
          <5> QED
            BY <2>5, <2>k, <4>1, <5>4 DEF Phase
        <4>4. CASE Writes(c, "close", <<Line("CLOSE", c)>>, "close to off")
          <5>1. (Calling \/ Listening) /\ req = << >> /\ pc'[c] = "close to off"
            BY <1>t, <2>2, <3>p, <4>4
               DEF Writes, Phase, Calling, Listening, Informing, Groped, Hailing, Hailed,
                   Prompting, Requesting, Done, Sent
          <5>2. req' = <<Line("CLOSE", c)>>
            BY <4>4, <5>1, WroteLine
          <5>3. Sent'
            BY <4>1, <5>1, <5>2 DEF Sent
          <5>4. Calling' \/ Listening'
            BY <2>s, <4>1, <4>q, <5>1, <5>3 DEF Calling, Listening
          <5> QED
            BY <2>5, <2>k, <4>1, <5>4 DEF Phase
        <4>5. CASE Writes(c, "info", <<Line("INFO", c)>>, "grope to idle")
          <5>1. Informing /\ req = << >> /\ ans = << >> /\ pc'[c] = "grope to idle"
            BY <1>t, <2>2, <3>p, <4>5
               DEF Writes, Phase, Calling, Listening, Informing, Groped, Hailing, Hailed,
                   Prompting, Requesting, Done, Sent
          <5>2. req' = <<Line("INFO", c)>>
            BY <4>5, <5>1, WroteLine
          <5>3. Informing'
            BY <2>2, <2>s, <4>1, <4>q, <5>1, <5>2 DEF Informing
          <5> QED
            BY <2>5, <2>k, <4>1, <5>3 DEF Phase
        <4>6. CASE Writes(c, "request", <<Line("REQ", c)>>, "psrp")
          <5>1. Requesting /\ req = << >> /\ ans = << >> /\ pc'[c] = "psrp"
            BY <1>t, <2>2, <3>p, <4>6
               DEF Writes, Phase, Calling, Listening, Informing, Groped, Hailing, Hailed,
                   Prompting, Requesting, Done, Sent
          <5>2. req' = <<Line("REQ", c)>>
            BY <4>6, <5>1, WroteLine
          <5>3. Requesting'
            BY <2>2, <2>s, <4>1, <4>q, <5>1, <5>2 DEF Requesting, HasSlot
          <5> QED
            BY <2>5, <2>k, <4>1, <5>3 DEF Phase
        <4> QED
          BY <3>1, <4>2, <4>3, <4>4, <4>5, <4>6 DEF Asks
      <3>2. CASE ReadsAny(c)
        <4>1. lock' = c /\ UNCHANGED <<req, sigs>> /\ ans # << >> /\ ans' = Tail(ans)
          BY <2>2, <3>2 DEF ReadsAny
        <4>2. CASE Goes(c, "seg", "info")
          <5>1. Informing /\ ans = <<"seg">> /\ req = << >> /\ pc'[c] = "info"
            BY <1>t, <2>2, <3>p, <4>1, <4>2
               DEF Phase, Calling, Listening, Informing, Groped, Hailing, Hailed,
                   Prompting, Requesting, Done, Sent
          <5>2. ans' = << >>
            BY <4>1, <5>1, Short
          <5>3. Informing'
            BY <2>2, <2>s, <4>1, <5>1, <5>2 DEF Informing, Quiet
          <5> QED
            BY <2>5, <2>k, <4>1, <5>3 DEF Phase
        <4>3. CASE Goes(c, "head", "request")
          <5>1. Requesting /\ ans = <<"head">> /\ req = << >> /\ pc'[c] = "request"
            BY <1>t, <2>2, <3>p, <4>1, <4>3
               DEF Phase, Calling, Listening, Informing, Groped, Hailing, Hailed,
                   Prompting, Requesting, Done, Sent
          <5>2. ans' = << >>
            BY <4>1, <5>1, Short
          <5>3. Requesting'
            BY <2>2, <2>s, <4>1, <5>1, <5>2 DEF Requesting, Quiet, HasSlot
          <5> QED
            BY <2>5, <2>k, <4>1, <5>3 DEF Phase
        <4> QED
          BY <3>2, <4>2, <4>3 DEF ReadsAny
      <3>3. CASE Skips(c)
        <4>1. /\ lock' = c /\ UNCHANGED <<req, sigs, pc>> /\ ans # << >> /\ ans' = Tail(ans)
              /\ pc[c] \in DOMAIN Awaited /\ Head(ans) # Awaited[pc[c]]
          BY <2>2, <3>3 DEF Skips
        <4>2. /\ pc[c] = "grope to chan"
              /\ \/ Informing /\ ans = <<"seg">>
                 \/ Groped /\ ans = <<"seg", "EOP grope">>
          <5>1. /\ Head(<<"EOP grope">>) = "EOP grope" /\ Head(<<"EOP chan">>) = "EOP chan"
                /\ Head(<<"EOP psrp">>) = "EOP psrp" /\ Head(<<"EOP close">>) = "EOP close"
            BY Short, Zenon
          <5> QED
            BY <2>2, <3>p, <4>1, <5>1
               DEF Phase, Calling, Listening, Informing, Groped, Hailing, Hailed,
                   Prompting, Requesting, Done, Sent, Awaited
        <4>3. CASE Informing /\ ans = <<"seg">>
          <5>1. ans' = << >>
            BY <4>1, <4>3, Short
          <5>2. Informing'
            BY <2>2, <2>s, <4>1, <4>2, <4>3, <5>1 DEF Informing, Quiet
          <5> QED
            BY <2>5, <2>k, <4>1, <5>2 DEF Phase
        <4>4. CASE Groped /\ ans = <<"seg", "EOP grope">>
          <5>1. ans' = <<"EOP grope">>
            <6>1. ans' = Tail(<<"seg", "EOP grope">>)
              BY <4>1, <4>4
            <6> QED
              BY <6>1, Short, Zenon
          <5>2. Groped'
            BY <2>2, <2>s, <4>1, <4>2, <4>4, <5>1 DEF Groped, Quiet, AtRest, HasSlot
          <5> QED
            BY <2>5, <2>k, <4>1, <5>2 DEF Phase
        <4> QED
          BY <4>2, <4>3, <4>4
      <3>4. CASE Opened(c)
        <4>1. /\ lock' = NoPid /\ UNCHANGED <<req, sigs>> /\ ans' = Tail(ans) /\ ans # << >>
              /\ pc[c] = "grope to idle" /\ pc'[c] = "idle"
          BY <1>t, <3>4 DEF Opened, Answered
        <4>2. Groped /\ ans = <<"EOP grope">>
          BY <2>2, <3>p, <4>1
             DEF Phase, Calling, Listening, Informing, Groped, Hailing, Hailed,
                 Prompting, Requesting, Done, Sent
        <4>3. Rest'
          BY <2>s, <4>1, <4>2, Short DEF Rest, Groped, Quiet, AtRest
        <4> QED
          BY <2>5, <2>f, <4>1, <4>3 DEF Apart
      <3>5. CASE Closed(c)
        <4>1. /\ lock' = NoPid /\ UNCHANGED <<req, sigs>> /\ ans' = Tail(ans) /\ ans # << >>
              /\ pc[c] = "close to off" /\ pc'[c] = "off"
          BY <1>t, <3>5 DEF Closed, Answered
        <4>2. Done /\ ans = <<"EOP close">>
          BY <2>2, <3>p, <4>1
             DEF Phase, Calling, Listening, Informing, Groped, Hailing, Hailed,
                 Prompting, Requesting, Done, Sent
        <4>3. Rest'
          BY <2>s, <4>1, <4>2, Short DEF Rest, Done, Quiet, AtRest
        <4> QED
          BY <2>5, <2>f, <4>1, <4>3 DEF Apart
      <3>6. CASE Grabbed(c)
        <4>1. /\ lock' = c /\ UNCHANGED req /\ ans' = Tail(ans) /\ ans # << >> /\ Head(ans) = "EOP grope"
              /\ pc[c] = "grope to chan" /\ pc'[c] = "chan" /\ Kill("SIGCHAN")
          BY <1>t, <2>2, <3>6 DEF Grabbed, Answered, Awaited
        <4>2. Groped /\ ans = <<"EOP grope">>
          <5>1. Head(<<"seg">>) = "seg" /\ Head(<<"seg", "EOP grope">>) = "seg"
            BY Short, Zenon
          <5> QED
            BY <2>2, <3>p, <4>1, <5>1
               DEF Phase, Calling, Listening, Informing, Groped, Hailing, Hailed,
                   Prompting, Requesting, Done, Sent
        <4>3. Pending("SIGCHAN")'
          BY <1>t, <4>1, <4>2, SignalsTurn DEF Groped
        <4>4. ans' = << >>
          BY <4>1, <4>2, Short
        <4>5. Hailing'
          BY <2>2, <2>s, <4>1, <4>2, <4>3, <4>4 DEF Hailing, Groped, AtRest, HasSlot
        <4> QED
          BY <2>5, <2>k, <4>1, <4>5 DEF Phase
      <3>7. CASE Heard(c)
        <4>1. /\ lock' = c /\ UNCHANGED req /\ ans' = Tail(ans) /\ ans # << >>
              /\ pc[c] = "chan" /\ pc'[c] = "head" /\ Kill("SIGPSRP")
          BY <1>t, <2>2, <3>7 DEF Heard, Answered
        <4>2. Hailed
          BY <2>2, <3>p, <4>1
             DEF Phase, Calling, Listening, Informing, Groped, Hailing, Hailed,
                 Prompting, Requesting, Done, Sent
        <4>3. Pending("SIGPSRP")'
          BY <1>t, <4>1, <4>2, SignalsTurn DEF Hailed
        <4>4. ans' = << >>
          BY <4>1, <4>2, Short DEF Hailed
        <4>5. Prompting'
          BY <2>2, <2>s, <4>1, <4>2, <4>3, <4>4 DEF Hailed, Prompting, HasSlot
        <4> QED
          BY <2>5, <2>k, <4>1, <4>5 DEF Phase
      <3>8. CASE Served(c)
        <4>1. /\ lock' = NoPid /\ UNCHANGED sigs /\ EmptyFifos /\ ans # << >>
              /\ pc[c] = "psrp" /\ pc'[c] = "idle"
          BY <1>t, <3>8 DEF Served, Answered
        <4>2. Done /\ req = << >>
          BY <2>2, <3>p, <4>1
             DEF Phase, Calling, Listening, Informing, Groped, Hailing, Hailed,
                 Prompting, Requesting, Done, Sent
        <4>3. req \in Seq(Lines) /\ ahead \in 0..Len(req)
          BY DEF TypeOK
        <4>4. req' = << >> /\ ans' = << >>
          BY <4>1, <4>2, <4>3, Kept DEF EmptyFifos
        <4>5. Rest'
          BY <2>s, <4>1, <4>2, <4>4 DEF Rest, Done, Quiet, AtRest
        <4> QED
          BY <2>5, <2>f, <4>1, <4>5 DEF Apart
      <3> QED
        BY <1>4, <3>1, <3>2, <3>3, <3>4, <3>5, <3>6, <3>7, <3>8
    <2> QED
      BY <2>4, <2>5
  <1> QED
    BY <1>2, <1>3, <1>4 DEF ClientSteps

-----------------------------------------------------------------------------
(* The client table. *)

(* Who has something to expect of the server. *)
Connected == {"idle", "grab", "grope to chan", "chan", "head", "request", "psrp"}

(* The slots that count, the one being filled included. *)
Occupied == {i \in Index : client[i] # NoPid \/ (sv = "info" /\ i = current)}

LEMMA OccupiedFinite ==
    ASSUME TypeOK
    PROVE  IsFiniteSet(Occupied) /\ Cardinality(Occupied) \in Nat
  <1>1. IsFiniteSet(Index)
    BY FS_Interval, PsrpChannelAssumption DEF Index
  <1>2. IsFiniteSet(Occupied)
    BY <1>1, FS_Subset DEF Occupied
  <1> QED
    BY <1>2, FS_CardinalityType

LEMMA TableOfClients ==
    ASSUME IInv, NEW c \in Clients, ClientSteps(c)
    PROVE  ConnectedHaveSlot' /\ OneSlotAhead' /\ CountRight'
  <1>1. /\ UNCHANGED <<sv, client, count, current>> /\ mishap \subseteq mishap'
        /\ \A d \in Clients : d # c => pc'[d] = pc[d]
    BY DEF ClientSteps, Open, Grab, Close, Begin, Die, Asks, Writes, ReadsAny, Skips, Opened, Closed,
           Grabbed, Heard, Served, Answered, serverVars, Goes, IInv, TypeOK
  <1>2. ConnectedHaveSlot'
    <2> SUFFICES ASSUME mishap' \cap {"died", "astray", "refused"} = {},
                        NEW d \in Clients, pc'[d] \in Connected
                 PROVE  \E i \in Index : client[i] = d
      BY <1>1 DEF ConnectedHaveSlot, Connected
    <2>1. mishap \cap {"died", "astray", "refused"} = {}
      BY <1>1
    <2>2. CASE pc[d] \in Connected
      BY <2>1, <2>2 DEF IInv, ConnectedHaveSlot, Connected
    <2>3. CASE pc[d] \notin Connected
      <3>1. d = c
        BY <1>1, <2>3
      <3>2. pc[c] = "grope to idle"
        BY <2>3, <3>1 DEF ClientSteps, Open, Grab, Close, Begin, Die, Asks, Writes, ReadsAny, Skips,
           Opened, Closed, Grabbed, Heard, Served, Answered, Goes, IInv, TypeOK, Connected
      <3>3. Opened(c)
        BY <2>3, <3>1, <3>2 DEF ClientSteps, Open, Grab, Close, Begin, Die, Asks, Writes, ReadsAny, Skips,
           Closed, Grabbed, Heard, Served, Answered, Goes, IInv, TypeOK, Connected
      <3>4. lock = c /\ Phase /\ ans # << >> /\ Head(ans) = "EOP grope"
        BY <2>1, <3>2, <3>3, Holds DEF IInv, Apart, Opened, Answered, Awaited
      <3>5. Groped
        BY <3>2, <3>4
           DEF Phase, Calling, Listening, Informing, Hailing, Hailed, Prompting, Requesting, Done, Sent
      <3> QED
        BY <3>1, <3>4, <3>5 DEF Groped, HasSlot
    <2> QED
      BY <2>2, <2>3
  <1>3. OneSlotAhead'
    <2> SUFFICES ASSUME sv = "info", mishap \cap {"died", "recount"} = {}, "died" \notin mishap'
                 PROVE  lock' = lock
      BY <1>1 DEF IInv, OneSlotAhead
    <2>1. "died" \notin mishap /\ "refused" \notin mishap
      BY DEF IInv, InTurn, Stranded
    <2>2. lock # NoPid /\ Informing
      BY <2>1, Turn DEF IInv
    <2>3. ~Open(c) /\ ~Grab(c) /\ ~Close(c)
      BY <2>2 DEF Open, Grab, Close, Begin
    <2>4. ~Opened(c) /\ ~Closed(c) /\ ~Served(c)
      <3> SUFFICES ASSUME Opened(c) \/ Closed(c) \/ Served(c) PROVE FALSE
        OBVIOUS
      <3>1. pc[c] \in {"grope to idle", "close to off", "psrp"} /\ ans # << >>
        BY DEF Opened, Closed, Served, Answered, Goes
      <3>2. lock = c
        BY <2>1, <3>1, Holds DEF IInv, Apart
      <3> QED
        BY <2>2, <3>1, <3>2 DEF Informing
    <2>5. CASE Die(c)
      BY <2>5 DEF Die
    <2>6. CASE Asks(c) \/ ReadsAny(c) \/ Skips(c) \/ Grabbed(c) \/ Heard(c)
      BY <2>6 DEF Asks, Writes, ReadsAny, Skips, Grabbed, Heard
    <2> QED
      BY <2>3, <2>4, <2>5, <2>6 DEF ClientSteps
  <1>4. CountRight'
    BY <1>1 DEF IInv, CountRight
  <1> QED
    BY <1>2, <1>3, <1>4

(* ReadGrope: the slot is found, and counted if it is new.                   *)
LEMMA TableOfGrope ==
    ASSUME IInv, ReadGrope
    PROVE  ConnectedHaveSlot' /\ OneSlotAhead' /\ CountRight'
  <1>1. /\ UNCHANGED <<pc, lock, client, mishap>> /\ sv = "op" /\ sv' = "info"
        /\ LET c == Head(req).from
           IN  GetSlot(c) # ENOCH /\ current' = GetSlot(c) /\ count' = CountAfterGet(c)
        /\ req # << >>
    BY DEF ReadGrope
  <1>2. ConnectedHaveSlot'
    BY <1>1 DEF IInv, ConnectedHaveSlot
  <1>3. CASE mishap \cap {"died", "recount"} # {}
    BY <1>1, <1>2, <1>3 DEF OneSlotAhead, CountRight
  <1>4. CASE mishap \cap {"died", "recount"} = {}
    <2>1. "died" \notin mishap /\ "refused" \notin mishap
      BY <1>1, <1>4 DEF IInv, InTurn, Stranded
    <2>2. lock # NoPid /\ Listening /\ lock \in Clients
      BY <1>1, <2>1, Turn DEF IInv, TypeOK
    <2>3. Head(req).from = lock
      BY <1>1, <2>2, SentLines DEF Listening
    <2>4. /\ GetSlot(lock) # ENOCH /\ current' = GetSlot(lock) /\ count' = CountAfterGet(lock)
          /\ current' \in Index
          /\ Known(lock) # {} => GetSlot(lock) \in Known(lock)
          /\ Known(lock) = {} => Free # {} /\ GetSlot(lock) \in Free
      BY <1>1, <2>2, <2>3, SlotsFound DEF IInv
    <2>5. /\ \A i, j \in Index : client[i] = client[j] /\ client[i] # NoPid => i = j
          /\ count = Cardinality(Occupied)
      BY <1>4 DEF IInv, CountRight, Occupied
    <2>6. IsFiniteSet(Occupied) /\ Cardinality(Occupied) \in Nat
      BY OccupiedFinite DEF IInv
    <2>7. Occupied = {i \in Index : client[i] # NoPid} /\ Occupied' = Occupied \cup {current'}
      BY <1>1, <2>4 DEF Occupied
    <2>8. CASE Known(lock) # {}
      <3>1. client[current'] = lock /\ current' \in Occupied
        BY <2>2, <2>4, <2>7, <2>8 DEF Known
      <3>2. Occupied' = Occupied /\ count' = count
        BY <2>4, <2>7, <2>8, <3>1 DEF CountAfterGet
      <3>3. OneSlotAhead'
        BY <1>1, <2>2, <2>4, <2>5, <3>1 DEF OneSlotAhead
      <3>4. CountRight'
        BY <1>1, <2>5, <3>2 DEF CountRight, Occupied
      <3> QED
        BY <1>2, <3>3, <3>4
    <2>9. CASE Known(lock) = {}
      <3>1. current' \notin Occupied
        BY <2>4, <2>7, <2>9 DEF Free
      <3>2. Cardinality(Occupied') = Cardinality(Occupied) + 1
        BY <2>6, <2>7, <3>1, FS_AddElement
      <3>3. count' = count + 1
        BY <2>4, <2>9 DEF CountAfterGet
      <3>4. \A i \in Index : client[i] # lock
        <4>1. CASE count > 0
          BY <2>9, <4>1 DEF Known
        <4>2. CASE ~(count > 0)
          <5>1. Cardinality(Occupied) = 0
            BY <2>5, <2>6, <4>2
          <5>2. Occupied = {}
            BY <2>6, <5>1, FS_EmptySet
          <5> QED
            BY <2>2, <2>7, <5>2
        <4> QED
          BY <4>1, <4>2
      <3>5. OneSlotAhead'
        BY <1>1, <3>4 DEF OneSlotAhead
      <3>6. CountRight'
        BY <1>1, <2>5, <3>2, <3>3 DEF CountRight, Occupied
      <3> QED
        BY <1>2, <3>5, <3>6
    <2> QED
      BY <2>8, <2>9
  <1> QED
    BY <1>3, <1>4

(* ReadInfo: the slot is filled.                                             *)
LEMMA TableOfInfo ==
    ASSUME IInv, ReadInfo
    PROVE  ConnectedHaveSlot' /\ OneSlotAhead' /\ CountRight'
  <1>1. /\ UNCHANGED <<pc, lock, count, current, mishap>> /\ sv = "info" /\ sv' = "closing"
        /\ req # << >>
    BY DEF ReadInfo
  <1>2. CASE "died" \in mishap
    BY <1>1, <1>2 DEF ConnectedHaveSlot, OneSlotAhead, CountRight
  <1>3. CASE "died" \notin mishap
    <2>1. "refused" \notin mishap
      BY <1>1, <1>3 DEF IInv, InTurn, Stranded
    <2>2. lock # NoPid /\ Informing /\ lock \in Clients
      BY <1>1, <1>3, <2>1, Turn DEF IInv, TypeOK
    <2>3. /\ req = <<Line("INFO", lock)>> /\ current \in Index /\ client[current] \in {NoPid, lock}
          /\ pc[lock] \in {"grope to idle", "grope to chan"}
      BY <1>1, <2>2 DEF Informing
    <2>4. Head(req).op = "INFO" /\ Head(req).from = lock
      BY <2>3, OneLine, Zenon
    <2>5. client' = [client EXCEPT ![current] = lock] /\ client \in [Index -> Clients \cup {NoPid}]
      BY <2>4 DEF ReadInfo, IInv, TypeOK
    <2>6. client'[current] = lock /\ \A i \in Index : i # current => client'[i] = client[i]
      BY <2>3, <2>5
    <2>7. ConnectedHaveSlot'
      <3> SUFFICES ASSUME mishap \cap {"died", "astray", "refused"} = {},
                          NEW c \in Clients, pc[c] \in Connected
                   PROVE  \E i \in Index : client'[i] = c
        BY <1>1 DEF ConnectedHaveSlot, Connected
      <3>1. PICK i \in Index : client[i] = c
        BY DEF IInv, ConnectedHaveSlot, Connected
      <3> QED
        BY <2>3, <2>6, <3>1, PsrpChannelAssumption
    <2>8. OneSlotAhead'
      BY <1>1 DEF OneSlotAhead
    <2>9. CountRight'
      <3> SUFFICES ASSUME "recount" \notin mishap PROVE CountRight'
        BY <1>1 DEF CountRight
      <3>1. \A i \in Index : client[i] = lock => i = current
        BY <1>1, <1>3 DEF IInv, OneSlotAhead
      <3>2. /\ \A i, j \in Index : client[i] = client[j] /\ client[i] # NoPid => i = j
            /\ count = Cardinality({i \in Index : client[i] # NoPid \/ (sv = "info" /\ i = current)})
        BY <1>3 DEF IInv, CountRight
      <3>3. \A i, j \in Index : client'[i] = client'[j] /\ client'[i] # NoPid => i = j
        BY <2>6, <3>1, <3>2
      <3>4. {i \in Index : client[i] # NoPid \/ (sv = "info" /\ i = current)}
              = {i \in Index : client'[i] # NoPid \/ (sv' = "info" /\ i = current')}
        BY <1>1, <2>2, <2>6
      <3> QED
        BY <1>1, <3>2, <3>3, <3>4 DEF CountRight
    <2> QED
      BY <2>7, <2>8, <2>9
  <1> QED
    BY <1>2, <1>3

(* ReadClose: a slot is emptied, that of the sender unless it goes astray.   *)
LEMMA TableOfClose ==
    ASSUME IInv, ReadClose
    PROVE  ConnectedHaveSlot' /\ OneSlotAhead' /\ CountRight'
  <1>1. UNCHANGED <<pc, lock>> /\ sv = "op" /\ sv' = "closing" /\ mishap \subseteq mishap' /\ req # << >>
    BY DEF ReadClose
  <1>2. OneSlotAhead'
    BY <1>1 DEF OneSlotAhead
  <1>3. CASE "died" \in mishap
    BY <1>1, <1>2, <1>3 DEF ConnectedHaveSlot, CountRight
  <1>4. CASE "died" \notin mishap
    <2>1. "refused" \notin mishap
      BY <1>1, <1>4 DEF IInv, InTurn, Stranded
    <2>2. lock # NoPid /\ Listening /\ lock \in Clients /\ current \in Index
      BY <1>1, <1>4, <2>1, Turn DEF IInv, TypeOK
    <2>3. Head(req).from = lock /\ pc[lock] = "close to off"
      BY <1>1, <2>2, SentLines DEF Listening, ReadClose
    <2>4. /\ count' = Fewer(1) /\ client' = [client EXCEPT ![current] = NoPid]
          /\ client[current] # lock => "astray" \in mishap'
          /\ client[current] = NoPid => "recount" \in mishap'
      BY <2>2, <2>3 DEF ReadClose
    <2>5. client'[current] = NoPid /\ \A i \in Index : i # current => client'[i] = client[i]
      BY <2>2, <2>4 DEF IInv, TypeOK
    <2>6. ConnectedHaveSlot'
      <3> SUFFICES ASSUME mishap' \cap {"died", "astray", "refused"} = {},
                          NEW c \in Clients, pc[c] \in Connected
                   PROVE  \E i \in Index : client'[i] = c
        BY <1>1 DEF ConnectedHaveSlot, Connected
      <3>1. PICK i \in Index : client[i] = c
        BY <1>1 DEF IInv, ConnectedHaveSlot, Connected
      <3>2. client[current] = lock /\ c # lock
        BY <2>3, <2>4 DEF Connected
      <3> QED
        BY <2>5, <3>1, <3>2
    <2>7. CountRight'
      <3> SUFFICES ASSUME "recount" \notin mishap' PROVE CountRight'
        BY DEF CountRight
      <3>1. /\ \A i, j \in Index : client[i] = client[j] /\ client[i] # NoPid => i = j
            /\ count = Cardinality(Occupied)
        BY <1>1, <1>4 DEF IInv, CountRight, Occupied
      <3>2. IsFiniteSet(Occupied) /\ Cardinality(Occupied) \in Nat
        BY OccupiedFinite DEF IInv
      <3>3. Occupied' = Occupied \ {current} /\ current \in Occupied
        BY <1>1, <2>2, <2>4, <2>5 DEF Occupied
      <3>4. Cardinality(Occupied') = Cardinality(Occupied) - 1
        BY <3>2, <3>3, FS_RemoveElement
      <3>5. Cardinality(Occupied) # 0
        BY <3>2, <3>3, FS_EmptySet
      <3>6. count' = count - 1
        <4>1. count \in Int /\ 1 <= count
          BY <3>1, <3>2, <3>5
        <4>2. Fewer(1) = count - 1
          BY <4>1, FewerAre
        <4> QED
          BY <2>4, <4>2
      <3>7. count' = Cardinality(Occupied')
        BY <3>1, <3>4, <3>6
      <3>8. \A i, j \in Index : client'[i] = client'[j] /\ client'[i] # NoPid => i = j
        BY <2>5, <3>1
      <3> QED
        BY <3>7, <3>8 DEF CountRight, Occupied
    <2> QED
      BY <1>2, <2>6, <2>7
  <1> QED
    BY <1>3, <1>4

(* Homeostat: the slots of dead clients are emptied.                         *)
LEMMA TableOfHomeostat ==
    ASSUME IInv, Homeostat
    PROVE  ConnectedHaveSlot' /\ OneSlotAhead' /\ CountRight'
  <1>1. UNCHANGED <<pc, lock, current>> /\ sv = "main" /\ sv' = "main" /\ mishap \subseteq mishap'
    BY DEF Homeostat
  <1>2. /\ IsFiniteSet(Cleared) /\ Cardinality(Cleared) \in Nat \ {0}
        /\ client' = [i \in Index |-> IF i \in Cleared THEN NoPid ELSE client[i]]
        /\ count' = Fewer(Cardinality(Cleared))
        /\ mishap' = mishap \cup
               {"recount" : i \in {j \in Index \cap {current} : client[j] = NoPid}}
    BY Emptied DEF IInv
  <1>3. OneSlotAhead'
    BY <1>1 DEF OneSlotAhead
  <1>4. ConnectedHaveSlot'
    <2> SUFFICES ASSUME mishap' \cap {"died", "astray", "refused"} = {},
                        NEW c \in Clients, pc[c] \in Connected
                 PROVE  \E i \in Index : client'[i] = c
      BY <1>1 DEF ConnectedHaveSlot, Connected
    <2>1. PICK i \in Index : client[i] = c
      BY <1>1 DEF IInv, ConnectedHaveSlot, Connected
    <2>2. i \notin Cleared
      BY <2>1, PsrpChannelAssumption DEF Cleared, Gone, Connected
    <2> QED
      BY <1>2, <2>1, <2>2
  <1>5. CountRight'
    <2> SUFFICES ASSUME "recount" \notin mishap', "died" \notin mishap' PROVE CountRight'
      BY DEF CountRight
    <2>1. /\ \A i, j \in Index : client[i] = client[j] /\ client[i] # NoPid => i = j
          /\ count = Cardinality(Occupied)
      BY <1>1 DEF IInv, CountRight, Occupied
    <2>2. IsFiniteSet(Occupied) /\ Cardinality(Occupied) \in Nat
      BY OccupiedFinite DEF IInv
    <2>3. Cleared \subseteq Occupied
      <3>1. \A i \in Index : ~(i = current /\ client[i] = NoPid)
        BY <1>2
      <3> QED
        BY <3>1 DEF Cleared, Gone, Occupied
    <2>4. Occupied' = Occupied \ Cleared
      BY <1>1, <1>2 DEF Occupied
    <2>5. Occupied \cap Cleared = Cleared
      BY <2>3
    <2>6. Cardinality(Occupied') = Cardinality(Occupied) - Cardinality(Cleared)
      <3>1. Cardinality(Occupied \ Cleared)
                = Cardinality(Occupied) - Cardinality(Occupied \cap Cleared)
        BY <2>2, FS_Difference
      <3> QED
        BY <2>4, <2>5, <3>1
    <2>7. Cardinality(Cleared) <= Cardinality(Occupied)
      BY <2>2, <2>3, FS_Subset
    <2>8. count' = count - Cardinality(Cleared)
      BY <1>2, <2>1, <2>7, FewerAre DEF IInv, TypeOK
    <2>9. count' = Cardinality(Occupied')
      BY <2>1, <2>6, <2>8
    <2>10. \A i, j \in Index : client'[i] = client'[j] /\ client'[i] # NoPid => i = j
      BY <1>2, <2>1
    <2> QED
      BY <2>9, <2>10 DEF CountRight, Occupied
  <1> QED
    BY <1>3, <1>4, <1>5

LEMMA TableOfServer ==
    ASSUME IInv, Server \/ Homeostat \/ HomeostatAstray
    PROVE  ConnectedHaveSlot' /\ OneSlotAhead' /\ CountRight'
  <1>1. CASE \/ StartInit \/ Refuse \/ ReadOther \/ Chan \/ Finish \/ StartPsrp \/ ReadRequest
             \/ HomeostatAstray
    <2>1. /\ UNCHANGED <<pc, lock, client, count>> /\ sv # "info" /\ sv' # "info"
          /\ mishap \subseteq mishap'
      BY <1>1 DEF StartInit, Refuse, ReadOther, Chan, Finish, StartPsrp, ReadRequest, Takes,
                  HomeostatAstray
    <2>2. ConnectedHaveSlot'
      BY <2>1 DEF IInv, ConnectedHaveSlot
    <2>3. OneSlotAhead'
      BY <2>1 DEF OneSlotAhead
    <2>4. CountRight'
      <3>1. {i \in Index : client[i] # NoPid \/ (sv = "info" /\ i = current)}
              = {i \in Index : client'[i] # NoPid \/ (sv' = "info" /\ i = current')}
        BY <2>1
      <3> QED
        BY <2>1, <3>1 DEF IInv, CountRight
    <2> QED
      BY <2>2, <2>3, <2>4
  <1> QED
    BY <1>1, TableOfGrope, TableOfInfo, TableOfClose, TableOfHomeostat DEF Server

-----------------------------------------------------------------------------

LEMMA InitIInv == Init => IInv
  <1> SUFFICES ASSUME Init PROVE IInv
    OBVIOUS
  <1>1. TypeOK
    BY InitType
  <1>2. InTurn
    BY PsrpChannelAssumption DEF Init, InTurn, Apart, Rest, Quiet, AtRest, Index
  <1>3. ConnectedHaveSlot /\ OneSlotAhead
    BY DEF Init, ConnectedHaveSlot, OneSlotAhead
  <1>4. CountRight
    <2>1. {i \in Index : client[i] # NoPid \/ (sv = "info" /\ i = current)} = {}
      BY DEF Init
    <2> QED
      BY <2>1, FS_EmptySet DEF Init, CountRight
  <1> QED
    BY <1>1, <1>2, <1>3, <1>4 DEF IInv

LEMMA NextIInv == IInv /\ [Next]_vars => IInv'
  <1> SUFFICES ASSUME IInv, [Next]_vars PROVE IInv'
    OBVIOUS
  <1>1. ASSUME NEW c \in Clients, ClientSteps(c) PROVE IInv'
    BY <1>1, TypeOfClients, TurnOfClients, TableOfClients DEF IInv
  <1>2. CASE Server \/ Homeostat \/ HomeostatAstray
    BY <1>2, TypeOfServer, TurnOfServer, TableOfServer DEF IInv
  <1>3. CASE UNCHANGED vars
    <2> USE <1>3 DEF vars
    <2>1. TypeOK'
      BY DEF IInv, TypeOK, Index, Steps
    <2>2. InTurn'
      <3>1. Rest' = Rest /\ Stranded' = Stranded
        BY DEF Rest, Stranded, Quiet, AtRest
      <3>2. Calling' = Calling /\ Listening' = Listening
        BY DEF Calling, Listening, Quiet, Pending, AtRest, Sent
      <3>3. Informing' = Informing /\ Groped' = Groped /\ Hailing' = Hailing
        BY DEF Informing, Groped, Hailing, Quiet, Pending, AtRest, HasSlot
      <3>4. Hailed' = Hailed /\ Prompting' = Prompting /\ Requesting' = Requesting /\ Done' = Done
        BY DEF Hailed, Prompting, Requesting, Done, Quiet, Pending, AtRest, HasSlot
      <3>5. Phase' = Phase
        BY <3>2, <3>3, <3>4 DEF Phase
      <3> QED
        BY <3>1, <3>5 DEF IInv, InTurn
    <2>3. ConnectedHaveSlot' /\ OneSlotAhead' /\ CountRight'
      BY DEF IInv, ConnectedHaveSlot, OneSlotAhead, CountRight
    <2> QED
      BY <2>1, <2>2, <2>3 DEF IInv
  <1> QED
    BY <1>1, <1>2, <1>3 DEF Next, Client, ClientSteps

-----------------------------------------------------------------------------

(* The inductive invariant holds throughout. *)
THEOREM Invariant == Spec => []IInv
  BY InitIInv, NextIInv, PTL DEF Spec

(* Every variable keeps its type, whoever dies and whatever is refused.      *)
THEOREM TypeCorrect == Spec => []TypeOK
  <1>1. IInv => TypeOK
    BY DEF IInv
  <1> QED
    BY <1>1, Invariant, PTL

(* Unless somebody dies with the lock in hand or is refused, the channel is  *)
(* clean whenever its lock is free, and psrp_handler finds its streams open. *)
THEOREM Clean == Spec => []CleanChannel
  <1>1. IInv => CleanChannel
    BY Turn DEF IInv, InTurn, CleanChannel, Stranded, Rest, Quiet, AtRest
  <1> QED
    BY <1>1, Invariant, PTL

(* A client keeps its slot until it closes, unless a CLOSE goes astray.      *)
THEOREM SlotsKept == Spec => []ConnectedHaveSlot
  <1>1. IInv => ConnectedHaveSlot
    BY DEF IInv
  <1> QED
    BY <1>1, Invariant, PTL

(* Unless an empty slot is cleared, a client has one slot and n_clients is   *)
(* the number of occupied ones.                                              *)
THEOREM Counted == Spec => []CountRight
  <1>1. IInv => CountRight
    BY DEF IInv
  <1> QED
    BY <1>1, Invariant, PTL

(* A request is executed for its sender, unless a client has died with the   *)
(* lock in hand.                                                             *)
THEOREM Attributed == Spec => RequestAttributed
  <1>1. IInv /\ [Next]_vars =>
            [ReadRequest /\ "died" \notin mishap
                => current \in Index /\ client[current] = Head(req).from]_vars
    <2> SUFFICES ASSUME IInv, ReadRequest, "died" \notin mishap
                 PROVE  current \in Index /\ client[current] = Head(req).from
      OBVIOUS
    <2>1. "refused" \notin mishap
      BY DEF IInv, InTurn, Stranded, ReadRequest
    <2>2. Requesting
      BY <2>1, Turn DEF IInv, ReadRequest
    <2>3. req = <<Line("REQ", lock)>>
      BY <2>2 DEF Requesting, ReadRequest
    <2>4. Head(req).from = lock
      BY <2>3, OneLine, Zenon
    <2> QED
      BY <2>2, <2>4 DEF Requesting, HasSlot
  <1> QED
    BY <1>1, Invariant, PTL DEF Spec, RequestAttributed

===============================================================================
