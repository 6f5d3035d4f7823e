----------------------- MODULE HandshakePacingProofs -----------------------
(***************************************************************************)
(* Proofs about HandshakePacing, for every value of its constants: however *)
(* long the waits, with and without rotation, and for carriers that wait   *)
(* for an answer and carriers that do not.                                 *)
(***************************************************************************)
EXTENDS HandshakePacing, TLAPS

\* What is left of the wait between two handshakes is never less than what the
\* pacing asks for; a run that was given up has not tried for as long as
\* last_handshake says; and an end with no session and no handshake under way
\* has had its session for long enough.
PacingInv ==
    /\ ~excused => apart + retry_at >= REKEY_TIMEOUT
    /\ apart < REKEY_TIMEOUT => last_handshake <= apart
    /\ ~pending /\ session # None /\ apart < REKEY_TIMEOUT => session <= apart
    /\ ~pending /\ session = None /\ ~excused => apart >= REKEY_TIMEOUT

\* An end is quiet only while it has no session or believes its peer dead; each
\* wait still running began no earlier than the quiet did; and once the timer
\* thread has looked at its clocks in this tick, the quiet is shorter than the
\* longest of them.
QuietInv ==
    /\ quiet > 0 => session = None \/ presumed_dead
    /\ retry_at > 0 => quiet + retry_at <= LongestRetry
    /\ resume_at > 0 => quiet + resume_at <= REJOIN_AFTER
    /\ syn_retry_at > 0 => quiet + syn_retry_at <= SYN_RETRY_MAX
    /\ last_handshake < RETRY_WHEN_GONE => quiet <= last_handshake
    /\ quiet <= IF kpc = "handshake" THEN LongestQuiet ELSE LongestQuiet - 1

Inv == TypeOK /\ PacingInv /\ QuietInv

-----------------------------------------------------------------------------
\* The constants are what the code's are: positive, with a jitter that does not
\* reach back before the session began.
LEMMA Bounds ==
    /\ REKEY_TIMEOUT \in Nat \ {0} /\ REKEY_TIMEOUT_JITTER \in Nat \ {0}
    /\ REKEY_ATTEMPT_TIME \in Nat \ {0} /\ RETRY_WHEN_GONE \in Nat \ {0}
    /\ REJOIN_AFTER \in Nat \ {0} /\ PRESUMED_DEAD \in Nat \ {0}
    /\ REKEY_AFTER_TIME \in Nat \ {0} /\ REJECT_AFTER_TIME \in Nat \ {0}
    /\ SYN_RETRY \in Nat \ {0} /\ SYN_RETRY_MAX \in Nat \ {0}
    /\ SYN_FRESH \in Nat \ {0} /\ Unanswered \in Nat \ {0}
    /\ REKEY_TIMEOUT <= RETRY_WHEN_GONE /\ REKEY_TIMEOUT <= REJECT_AFTER_TIME
    /\ REKEY_JITTER \in Nat /\ REKEY_JITTER <= REKEY_AFTER_TIME
BY PacingAssumption DEF PacingAssumption

\* The longest quiet is longer than each of the waits.
LEMMA Waits ==
    /\ LongestRetry \in Nat /\ LongestQuiet \in Nat
    /\ REKEY_TIMEOUT <= LongestRetry
    /\ LongestRetry <= LongestQuiet - 1 /\ RETRY_WHEN_GONE <= LongestQuiet - 1
    /\ REJOIN_AFTER <= LongestQuiet - 1 /\ SYN_RETRY_MAX <= LongestQuiet - 1
BY Bounds DEF LongestRetry, LongestQuiet, Most

\* syn_backoff never exceeds its limit, however often a SYN was repeated.
LEMMA BackoffBounded ==
    ASSUME NEW tries \in 1 .. MaxTries
    PROVE  syn_backoff(tries) \in 0 .. SYN_RETRY_MAX
<1> DEFINE n == Least(tries - 1, 3)
           wait == SYN_RETRY * 2 ^ n
<1>1. n \in 0 .. 3
  BY DEF MaxTries, Least
<1>2. 2 ^ 0 = 1 /\ 2 ^ 1 = 2 /\ 2 ^ 2 = 4 /\ 2 ^ 3 = 8
  OBVIOUS
<1>3. 2 ^ n \in {1, 2, 4, 8}
  <2> HIDE DEF n
  <2>1. n = 0 \/ n = 1 \/ n = 2 \/ n = 3
    BY <1>1
  <2>2. QED
    BY <2>1, <1>2, Zenon
<1>4. wait \in Nat
  <2> DEFINE k == 2 ^ n
  <2>1. k \in {1, 2, 4, 8}
    BY <1>3
  <2> HIDE DEF k, n
  <2>2. SYN_RETRY * k \in Nat
    BY <2>1, Bounds
  <2>3. QED
    BY <2>2 DEF k
<1>5. syn_backoff(tries) = Least(wait, SYN_RETRY_MAX)
  BY DEF syn_backoff
<1> HIDE DEF wait
<1>6. QED
  BY <1>4, <1>5, Bounds DEF Least

\* A knock either sends a SYN, which ends the quiet and starts the wait for the
\* next, or moves no clock.
LEMMA KnockStep ==
    ASSUME TypeOK, NEW c \in {"none", "idle", "syn", "ready"}, NEW o \in 0 .. SYN_FRESH,
           NEW r \in 0 .. REKEY_ATTEMPT_TIME \cup {None}, NEW f \in SUBSET {"msg1", "syn"},
           knock(c, o, r, f)
    PROVE  /\ carrier' \in {"none", "idle", "syn", "ready"}
           /\ opened_at' \in 0 .. SYN_FRESH
           /\ syn_tries' \in 0 .. MaxTries
           /\ syn_retry_at' \in 0 .. SYN_RETRY_MAX
           /\ attempt_started' \in 0 .. REKEY_ATTEMPT_TIME \cup {None}
           /\ flight' \subseteq {"msg1", "syn"}
           /\ \/ Knocks(c) /\ quiet' = 0 /\ last_handshake' = 0
              \/ ~Knocks(c) /\ UNCHANGED <<quiet, last_handshake, syn_retry_at>>
<1>1. CASE Knocks(c)
  <2>1. syn_tries' \in 1 .. MaxTries /\ syn_retry_at' = syn_backoff(syn_tries')
    BY <1>1 DEF knock, TypeOK, Least, MaxTries
  <2>2. syn_retry_at' \in 0 .. SYN_RETRY_MAX
    BY <2>1, BackoffBounded
  <2>3. carrier' \in {"none", "idle", "syn", "ready"} /\ flight' \subseteq {"msg1", "syn"}
    BY <1>1, Zenon DEF knock
  <2>4. /\ opened_at' \in 0 .. SYN_FRESH
        /\ attempt_started' \in 0 .. REKEY_ATTEMPT_TIME \cup {None}
    BY <1>1, Bounds DEF knock
  <2>5. quiet' = 0 /\ last_handshake' = 0 /\ syn_tries' \in 0 .. MaxTries
    BY <1>1, <2>1 DEF knock, MaxTries
  <2>6. QED
    BY <1>1, <2>2, <2>3, <2>4, <2>5
<1>2. CASE ~Knocks(c)
  BY <1>2, Zenon DEF knock, TypeOK
<1>3. QED
  BY <1>1, <1>2

\* The invariant holds at the start.
LEMMA InitInv == Init => Inv
<1> SUFFICES ASSUME Init PROVE Inv
  OBVIOUS
<1>1. TypeOK
  <2>1. pending \in BOOLEAN /\ unheard \in BOOLEAN /\ excused \in BOOLEAN
    BY Zenon DEF Init
  <2>2. QED
    BY <2>1, Bounds, Waits DEF Init, TypeOK, MaxTries
<1>2. PacingInv /\ QuietInv
  BY Bounds, Waits DEF Init, PacingInv, QuietInv
<1>3. QED
  BY <1>1, <1>2 DEF Inv

\* A state with no quiet behind it has nothing to show but its types, and one
\* with a handshake just sent has the whole of its wait before it.
LEMMA QuietEnds == TypeOK /\ quiet = 0 => QuietInv
BY Bounds, Waits DEF TypeOK, QuietInv

\* begin_handshake() stamps last_handshake and sets retry_at in one go, so the
\* pacing starts afresh.
LEMMA JustSent ==
    TypeOK /\ pending /\ apart = 0 /\ last_handshake = 0 /\ retry_at >= REKEY_TIMEOUT => PacingInv
BY Bounds, Waits DEF TypeOK, PacingInv

-----------------------------------------------------------------------------
\* A tick moves every clock by one.
LEMMA TickInv == Inv /\ Tick => Inv'
<1> SUFFICES ASSUME Inv, Tick PROVE Inv'
  OBVIOUS
<1> USE Bounds, Waits DEF Inv
<1>1. TypeOK'
  BY DEF Tick, TypeOK, Least, Most, None
<1>2. PacingInv'
  BY DEF Tick, TypeOK, PacingInv, Least, Most, None
<1>3. QuietInv'
  <2>1. quiet' \in {0, quiet + 1}
    BY DEF Tick, TypeOK, QuietInv, Least
  <2>2. quiet' > 0 => session' = None \/ presumed_dead'
    BY <2>1 DEF Tick, TypeOK, QuietInv, presumed_dead, Least
  <2>3. /\ retry_at' > 0 => quiet' + retry_at' <= LongestRetry
        /\ resume_at' > 0 => quiet' + resume_at' <= REJOIN_AFTER
        /\ syn_retry_at' > 0 => quiet' + syn_retry_at' <= SYN_RETRY_MAX
    BY <2>1 DEF Tick, TypeOK, QuietInv, Most
  <2>4. last_handshake' < RETRY_WHEN_GONE => quiet' <= last_handshake'
    BY <2>1 DEF Tick, TypeOK, QuietInv, Least
  <2>5. kpc' = "handshake" /\ quiet' <= LongestQuiet
    BY <2>1 DEF Tick, TypeOK, QuietInv
  <2>6. QED
    BY <2>2, <2>3, <2>4, <2>5 DEF QuietInv
<1>4. QED
  BY <1>1, <1>2, <1>3

-----------------------------------------------------------------------------
\* maybe_handshake when no handshake is wanted: only an expired session goes.
\* In the timer thread, it is a wait still running that says so.
LEMMA UnwantedInv ==
    ASSUME Inv, NEW thread \in {"K", "W"}, maybe_handshake(thread), ~wants_handshake(Unexpired)
    PROVE  Inv'
<1> USE Bounds, Waits DEF Inv
<1>1. /\ session' = Unexpired
      /\ UNCHANGED <<resume_at, rekey_at, last_receive, unheard, pending, carrier, retry_at,
                     syn_retry_at, last_handshake, opened_at, attempt_started, unanswered,
                     syn_tries, flight, quiet, apart, excused>>
  BY DEF maybe_handshake
<1>2. /\ kpc' \in {"handshake", "rotate", "open", "sleep"} /\ wpc' \in {"idle", "handshake"}
      /\ kpc' = "handshake" => kpc = "handshake"
  BY DEF maybe_handshake, TypeOK
<1>3. TypeOK'
  BY <1>1, <1>2 DEF TypeOK, Unexpired, None
<1>4. PacingInv'
  BY <1>1 DEF TypeOK, PacingInv, Unexpired, None
<1>5. QuietInv'
  <2>1. quiet' > 0 => session' = None \/ presumed_dead'
    BY <1>1 DEF QuietInv, Unexpired, presumed_dead
  <2>2. quiet <= IF kpc' = "handshake" THEN LongestQuiet ELSE LongestQuiet - 1
    <3>1. CASE kpc = "handshake" /\ kpc' # "handshake"
      <4>1. \/ resume_at > 0 \/ retry_at > 0 \/ last_handshake < RETRY_WHEN_GONE
            \/ session # None /\ ~presumed_dead
        BY DEF wants_handshake, waited, revive, Unexpired, TypeOK
      <4>2. QED
        BY <4>1 DEF TypeOK, QuietInv
    <3>2. CASE kpc' = "handshake" \/ kpc # "handshake"
      BY <3>2, <1>2 DEF TypeOK, QuietInv
    <3>3. QED
      BY <3>1, <3>2
  <2>3. QED
    BY <1>1, <2>1, <2>2 DEF QuietInv
<1>6. QED
  BY <1>3, <1>4, <1>5

\* maybe_handshake when one is wanted and the carrier is not open: a SYN goes,
\* unless the last one is still being waited for.
LEMMA KnockingInv ==
    ASSUME Inv, NEW thread \in {"K", "W"}, maybe_handshake(thread), wants_handshake(Unexpired),
           Connection # "ready"
    PROVE  Inv'
<1> USE Bounds, Waits DEF Inv
<1> DEFINE r == IF revive(Unexpired) THEN None ELSE attempt_started
<1>1. /\ session' = Unexpired
      /\ UNCHANGED <<resume_at, rekey_at, last_receive, unheard, pending, retry_at, apart, excused>>
      /\ knock(Connection, opened_at, r, flight)
      /\ unanswered' = Least(unanswered + (IF Knocks(Connection) THEN 1 ELSE 0), Unanswered)
  BY DEF maybe_handshake
<1>2. /\ kpc' \in {"handshake", "rotate", "open", "sleep"} /\ wpc' \in {"idle", "handshake"}
      /\ kpc' = "handshake" => kpc = "handshake"
  BY DEF maybe_handshake, TypeOK
<1>3. Connection \in {"idle", "syn"}
  BY DEF TypeOK, Connection, Fresh
<1>4. /\ carrier' \in {"none", "idle", "syn", "ready"}
      /\ opened_at' \in 0 .. SYN_FRESH
      /\ syn_tries' \in 0 .. MaxTries
      /\ syn_retry_at' \in 0 .. SYN_RETRY_MAX
      /\ attempt_started' \in 0 .. REKEY_ATTEMPT_TIME \cup {None}
      /\ flight' \subseteq {"msg1", "syn"}
      /\ \/ quiet' = 0 /\ last_handshake' = 0
         \/ ~Knocks(Connection) /\ UNCHANGED <<quiet, last_handshake, syn_retry_at>>
  <2>1. r \in 0 .. REKEY_ATTEMPT_TIME \cup {None} /\ opened_at \in 0 .. SYN_FRESH
        /\ flight \in SUBSET {"msg1", "syn"}
    BY DEF TypeOK
  <2> HIDE DEF r
  <2>2. QED
    BY <1>1, <1>3, <2>1, KnockStep
<1>5. unanswered' \in 0 .. Unanswered
  BY <1>1 DEF Least, TypeOK
<1>6. TypeOK'
  BY <1>1, <1>2, <1>4, <1>5 DEF TypeOK, Unexpired
<1>7. PacingInv'
  BY <1>1, <1>4 DEF TypeOK, PacingInv, Unexpired, None
<1>8. QuietInv'
  <2>1. quiet' > 0 => session' = None \/ presumed_dead'
    BY <1>1, <1>4 DEF QuietInv, TypeOK, Unexpired, presumed_dead
  <2>2. CASE quiet' = 0 /\ last_handshake' = 0
    <3>1. (TypeOK /\ quiet = 0 => QuietInv)'
      BY QuietEnds, PTL
    <3>2. QED
      BY <1>6, <2>2, <3>1
  <2>3. CASE ~Knocks(Connection) /\ UNCHANGED <<quiet, last_handshake, syn_retry_at>>
    <3>1. syn_retry_at > 0
      BY <1>3, <2>3 DEF Knocks, TypeOK
    <3>2. QED
      BY <1>1, <1>2, <2>1, <2>3, <3>1 DEF QuietInv, TypeOK
  <2>4. QED
    BY <1>4, <2>2, <2>3
<1>9. QED
  BY <1>6, <1>7, <1>8

\* maybe_handshake when one is wanted and the carrier is open: it goes.
LEMMA InitiatingInv ==
    ASSUME Inv, NEW thread \in {"K", "W"}, maybe_handshake(thread), wants_handshake(Unexpired),
           Connection = "ready"
    PROVE  Inv'
<1> USE Bounds, Waits DEF Inv
<1>1. /\ session' = Unexpired
      /\ UNCHANGED <<resume_at, rekey_at, last_receive, unheard, syn_retry_at, opened_at, syn_tries>>
      /\ carrier' = "ready" /\ pending' = TRUE /\ last_handshake' = 0
      /\ retry_at' \in REKEY_TIMEOUT .. LongestRetry
      /\ attempt_started' \in {0, attempt_started}
      /\ unanswered' = Least(unanswered + 1, Unanswered)
      /\ flight' = flight \cup {"msg1"}
      /\ quiet' = 0 /\ apart' = 0 /\ excused' = FALSE
  BY DEF maybe_handshake
<1>2. kpc' \in {"handshake", "rotate", "open", "sleep"} /\ wpc' \in {"idle", "handshake"}
  BY DEF maybe_handshake, TypeOK
<1>3. pending' \in BOOLEAN /\ excused' \in BOOLEAN
  BY <1>1, Zenon
<1>4. TypeOK'
  BY <1>1, <1>2, <1>3 DEF TypeOK, Unexpired, Least
<1>5. (TypeOK /\ quiet = 0 => QuietInv)'
  BY QuietEnds, PTL
<1>6. (TypeOK /\ pending /\ apart = 0 /\ last_handshake = 0 /\ retry_at >= REKEY_TIMEOUT
       => PacingInv)'
  BY JustSent, PTL
<1>7. retry_at' >= REKEY_TIMEOUT
  BY <1>1
<1>8. QED
  BY <1>1, <1>4, <1>5, <1>6, <1>7

-----------------------------------------------------------------------------
\* maybe_rotate: a move off a stuck tuple is the one that ends a wait early.
LEMMA RotateInv == Inv /\ maybe_rotate => Inv'
<1> SUFFICES ASSUME Inv, maybe_rotate PROVE Inv'
  OBVIOUS
<1> USE Bounds, Waits DEF Inv
<1> DEFINE Knocked(q) ==
              /\ carrier' \in {"none", "idle", "syn", "ready"}
              /\ opened_at' \in 0 .. SYN_FRESH
              /\ syn_tries' \in 0 .. MaxTries
              /\ syn_retry_at' \in 0 .. SYN_RETRY_MAX
              /\ attempt_started' \in 0 .. REKEY_ATTEMPT_TIME \cup {None}
              /\ flight' \subseteq {"msg1", "syn"}
              /\ unanswered' \in 0 .. Unanswered
              /\ \/ q /\ quiet' = 0 /\ last_handshake' = 0
                 \/ ~q /\ UNCHANGED <<quiet, last_handshake, syn_retry_at>>
<1>1. /\ kpc = "rotate" /\ kpc' = "open"
      /\ UNCHANGED <<session, pending, resume_at, rekey_at, last_receive, unheard, wpc, apart>>
  BY DEF maybe_rotate, clocks
<1>2. \/ UNCHANGED <<retry_at, excused>>
      \/ retry_at' \in {0, retry_at} /\ excused' = (excused \/ stuck) /\ (stuck \/ retry_at' = retry_at)
  BY DEF maybe_rotate, clocks, TypeOK
<1>3. Knocked(TRUE) \/ Knocked(FALSE)
  <2>1. CASE UNCHANGED <<carrier, clocks, unanswered, syn_tries, flight, quiet>>
    BY <2>1 DEF clocks, TypeOK
  <2>2. ASSUME NEW c \in {"idle", "syn", "ready"}, NEW o \in 0 .. SYN_FRESH,
               NEW f \in SUBSET {"msg1", "syn"},
               knock(c, o, attempt_started, f), unanswered' = IF Knocks(c) THEN 1 ELSE 0
        PROVE  Knocked(TRUE) \/ Knocked(FALSE)
    <3>1. unanswered' \in 0 .. Unanswered
      BY <2>2
    <3>2. attempt_started \in 0 .. REKEY_ATTEMPT_TIME \cup {None}
      BY DEF TypeOK
    <3>3. QED
      BY <2>2, <3>1, <3>2, KnockStep
  <2>3. CASE \E c \in {"idle", "syn", "ready"}, o \in 0 .. SYN_FRESH :
                /\ knock(c, o, attempt_started, IF c = "syn" THEN flight \cup {"syn"} ELSE flight)
                /\ unanswered' = IF Knocks(c) THEN 1 ELSE 0
    <3>1. PICK c \in {"idle", "syn", "ready"}, o \in 0 .. SYN_FRESH :
                /\ knock(c, o, attempt_started, IF c = "syn" THEN flight \cup {"syn"} ELSE flight)
                /\ unanswered' = IF Knocks(c) THEN 1 ELSE 0
      BY <2>3
    <3>2. (IF c = "syn" THEN flight \cup {"syn"} ELSE flight) \in SUBSET {"msg1", "syn"}
      BY DEF TypeOK
    <3>3. QED
      BY <2>2, <3>1, <3>2
  <2>4. QED
    BY <2>1, <2>3 DEF maybe_rotate
<1>4. TypeOK'
  <2>1. retry_at' \in 0 .. LongestRetry
    BY <1>2 DEF TypeOK
  <2>2. excused' \in BOOLEAN
    BY <1>2, Zenon DEF TypeOK
  <2>3. last_handshake' \in 0 .. RETRY_WHEN_GONE /\ quiet' \in 0 .. LongestQuiet + 1
    BY <1>3 DEF TypeOK
  <2>4. QED
    BY <1>1, <1>3, <2>1, <2>2, <2>3 DEF TypeOK
<1>5. PacingInv'
  <2>1. ~excused' => ~excused /\ retry_at' = retry_at
    BY <1>2, Zenon
  <2>2. last_handshake' \in {0, last_handshake}
    BY <1>3
  <2>3. QED
    BY <1>1, <2>1, <2>2 DEF TypeOK, PacingInv
<1>6. QuietInv'
  <2>1. CASE Knocked(TRUE)
    <3>1. (TypeOK /\ quiet = 0 => QuietInv)'
      BY QuietEnds, PTL
    <3>2. QED
      BY <1>4, <2>1, <3>1
  <2>2. CASE Knocked(FALSE)
    <3>1. retry_at' \in {0, retry_at} /\ UNCHANGED <<quiet, last_handshake, syn_retry_at>>
      BY <1>2, <2>2
    <3>2. quiet' > 0 => session' = None \/ presumed_dead'
      BY <1>1, <3>1 DEF QuietInv, presumed_dead
    <3>3. retry_at' > 0 => quiet' + retry_at' <= LongestRetry
      <4>1. CASE retry_at' = 0
        BY <4>1
      <4>2. CASE UNCHANGED <<retry_at, quiet>>
        BY <4>2 DEF QuietInv
      <4>3. QED
        BY <3>1, <4>1, <4>2
    <3>4. QED
      BY <1>1, <3>1, <3>2, <3>3 DEF QuietInv
  <2>3. QED
    BY <1>3, <2>1, <2>2
<1>7. QED
  BY <1>4, <1>5, <1>6

\* maybe_open: at most a SYN.
LEMMA OpenInv == Inv /\ maybe_open => Inv'
<1> SUFFICES ASSUME Inv, maybe_open PROVE Inv'
  OBVIOUS
<1> USE Bounds, Waits DEF Inv
<1>1. /\ kpc = "open" /\ kpc' = "sleep"
      /\ UNCHANGED <<session, pending, retry_at, resume_at, rekey_at, last_receive, unheard, wpc,
                     apart, excused>>
  BY DEF maybe_open
<1>2. /\ carrier' \in {"none", "idle", "syn", "ready"}
      /\ opened_at' \in 0 .. SYN_FRESH
      /\ syn_tries' \in 0 .. MaxTries
      /\ syn_retry_at' \in 0 .. SYN_RETRY_MAX
      /\ attempt_started' \in 0 .. REKEY_ATTEMPT_TIME \cup {None}
      /\ flight' \subseteq {"msg1", "syn"}
      /\ unanswered' \in 0 .. Unanswered
      /\ \/ quiet' = 0 /\ last_handshake' = 0
         \/ UNCHANGED <<quiet, last_handshake, syn_retry_at>>
  <2>1. CASE knock_due
    <3>1. /\ carrier \in {"none", "idle", "syn", "ready"} /\ opened_at \in 0 .. SYN_FRESH
          /\ attempt_started \in 0 .. REKEY_ATTEMPT_TIME \cup {None}
          /\ flight \in SUBSET {"msg1", "syn"}
          /\ knock(carrier, opened_at, attempt_started, flight)
      BY <2>1 DEF maybe_open, TypeOK
    <3>2. unanswered' \in 0 .. Unanswered
      BY <2>1 DEF maybe_open, TypeOK, Least
    <3>3. QED
      BY <3>1, <3>2, KnockStep
  <2>2. CASE ~knock_due
    BY <2>2, Zenon DEF maybe_open, TypeOK
  <2>3. QED
    BY <2>1, <2>2
<1>3. TypeOK'
  <2>1. last_handshake' \in 0 .. RETRY_WHEN_GONE /\ quiet' \in 0 .. LongestQuiet + 1
    BY <1>2 DEF TypeOK
  <2>2. QED
    BY <1>1, <1>2, <2>1 DEF TypeOK
<1>4. PacingInv'
  <2>1. last_handshake' \in {0, last_handshake}
    BY <1>2
  <2>2. QED
    BY <1>1, <2>1 DEF TypeOK, PacingInv
<1>5. QuietInv'
  <2>1. CASE quiet' = 0
    <3>1. (TypeOK /\ quiet = 0 => QuietInv)'
      BY QuietEnds, PTL
    <3>2. QED
      BY <1>3, <2>1, <3>1
  <2>2. CASE UNCHANGED <<quiet, last_handshake, syn_retry_at>>
    BY <1>1, <2>2 DEF QuietInv, presumed_dead
  <2>3. QED
    BY <1>2, <2>1, <2>2
<1>6. QED
  BY <1>3, <1>4, <1>5

-----------------------------------------------------------------------------
\* What reaches this end: a connection that opened excuses the next handshake,
\* and a word from the peer ends the quiet.
LEMMA SynAckInv == Inv /\ handle_syn_ack => Inv'
<1> SUFFICES ASSUME Inv, handle_syn_ack PROVE Inv'
  OBVIOUS
<1> USE Bounds, Waits DEF Inv
<1>1. UNCHANGED <<session, pending, resume_at, rekey_at, last_handshake, last_receive, opened_at,
                  attempt_started, unheard, kpc, quiet, apart>>
  BY DEF handle_syn_ack
<1>2. CASE carrier = "syn"
  <2>1. /\ carrier' = "ready" /\ syn_tries' = 0 /\ syn_retry_at' = 0 /\ unanswered' = 0
        /\ retry_at' = 0 /\ excused' = TRUE /\ wpc' \in {"idle", "handshake"}
        /\ flight' \subseteq flight
    BY <1>2 DEF handle_syn_ack
  <2>2. excused' \in BOOLEAN
    BY <2>1, Zenon
  <2>3. TypeOK'
    BY <1>1, <2>1, <2>2 DEF TypeOK, MaxTries
  <2>4. PacingInv' /\ QuietInv'
    BY <1>1, <2>1 DEF PacingInv, QuietInv, presumed_dead
  <2>5. QED
    BY <2>3, <2>4
<1>3. CASE carrier # "syn"
  <2>1. /\ UNCHANGED <<carrier, syn_tries, syn_retry_at, unanswered, retry_at, excused, wpc>>
        /\ flight' \subseteq flight
    BY <1>3 DEF handle_syn_ack
  <2>2. TypeOK'
    BY <1>1, <2>1 DEF TypeOK
  <2>3. PacingInv' /\ QuietInv'
    BY <1>1, <2>1 DEF PacingInv, QuietInv, presumed_dead
  <2>4. QED
    BY <2>2, <2>3
<1>4. QED
  BY <1>2, <1>3

\* handle_msg2() ends the handshake and the quiet at once.
LEMMA ReplyInv == Inv /\ handle_msg2 => Inv'
<1> SUFFICES ASSUME Inv, handle_msg2 PROVE Inv'
  OBVIOUS
<1> USE Bounds, Waits DEF Inv
<1>1. pending' \in BOOLEAN /\ unheard' \in BOOLEAN
  BY Zenon DEF handle_msg2
<1>2. rekey_at' \in 0 .. REKEY_AFTER_TIME + REKEY_JITTER
  BY DEF handle_msg2
<1>3. TypeOK'
  BY <1>1, <1>2 DEF handle_msg2, TypeOK
<1>4. PacingInv'
  BY DEF handle_msg2, TypeOK, PacingInv, None
<1>5. (TypeOK /\ quiet = 0 => QuietInv)'
  BY QuietEnds, PTL
<1>6. QED
  BY <1>3, <1>4, <1>5 DEF handle_msg2

\* A record that opens ends the quiet and disturbs no pacing.
LEMMA HearInv == Inv /\ Hear => Inv'
<1> SUFFICES ASSUME Inv, Hear PROVE Inv'
  OBVIOUS
<1> USE Bounds, Waits DEF Inv
<1>1. unheard' \in BOOLEAN
  BY Zenon DEF Hear
<1>2. TypeOK'
  BY <1>1 DEF Hear, TypeOK
<1>3. PacingInv'
  BY DEF Hear, PacingInv
<1>4. (TypeOK /\ quiet = 0 => QuietInv)'
  BY QuietEnds, PTL
<1>5. QED
  BY <1>2, <1>3, <1>4 DEF Hear

\* A Bye that is believed drops the session (farewell).
LEMMA FarewellInv == Inv /\ farewell => Inv'
<1> SUFFICES ASSUME Inv, farewell PROVE Inv'
  OBVIOUS
<1> USE Bounds, Waits DEF Inv
<1>1. pending' \in BOOLEAN /\ unheard' \in BOOLEAN /\ excused' \in BOOLEAN
  BY Zenon DEF farewell
<1>2. TypeOK'
  BY <1>1 DEF farewell, TypeOK
<1>3. PacingInv'
  BY DEF farewell, PacingInv
<1>4. (TypeOK /\ quiet = 0 => QuietInv)'
  BY QuietEnds, PTL
<1>5. QED
  BY <1>2, <1>3, <1>4 DEF farewell

\* Data to send moves no clock but that of the run of handshakes.
LEMMA SendDataInv == Inv /\ SendData => Inv'
<1> SUFFICES ASSUME Inv, SendData PROVE Inv'
  OBVIOUS
<1> USE Bounds, Waits DEF Inv
<1>1. unheard' \in BOOLEAN /\ (unheard => unheard')
  BY Zenon DEF SendData, TypeOK
<1>2. TypeOK'
  BY <1>1 DEF SendData, TypeOK
<1>3. PacingInv' /\ QuietInv'
  BY <1>1 DEF SendData, PacingInv, QuietInv, presumed_dead
<1>4. QED
  BY <1>2, <1>3

\* Every step keeps the invariant.
LEMMA StepInv == Inv /\ [Next]_vars => Inv'
<1> SUFFICES ASSUME Inv, [Next]_vars PROVE Inv'
  OBVIOUS
<1>1. ASSUME NEW thread \in {"K", "W"}, maybe_handshake(thread) PROVE Inv'
  BY <1>1, UnwantedInv, KnockingInv, InitiatingInv
<1>2. ASSUME NEW m \in flight, Lose(m) PROVE Inv'
  <2>1. TypeOK'
    BY <1>2 DEF Lose, Inv, TypeOK, clocks, history
  <2>2. QED
    BY <1>2, <2>1 DEF Lose, Inv, PacingInv, QuietInv, presumed_dead, clocks, history
<1>3. CASE UNCHANGED vars
  <2>1. TypeOK'
    BY <1>3 DEF vars, Inv, TypeOK, clocks, history
  <2>2. QED
    BY <1>3, <2>1 DEF vars, Inv, PacingInv, QuietInv, presumed_dead, clocks, history
<1>4. QED
  BY <1>1, <1>2, <1>3, TickInv, RotateInv, OpenInv, SynAckInv, ReplyInv, HearInv, FarewellInv,
     SendDataInv DEF Next

-----------------------------------------------------------------------------
\* Type correctness of the timers, and the bound on silence: with no session, or
\* a peer that has stopped answering, the initiator is never longer without a
\* SYN or a handshake than the longest of its waits, whatever they are and
\* however give-ups, goodbyes, expiries and moves interleave
\* (PeerState::wants_handshake, ::revive, knock_due).
THEOREM SilenceIsBounded == Spec => [](TypeOK /\ NeverSilent)
<1>1. Inv => TypeOK /\ NeverSilent
  BY Waits DEF Inv, TypeOK, QuietInv, NeverSilent
<1>2. QED
  BY <1>1, InitInv, StepInv, PTL DEF Spec

\* A handshake that is wanted comes REKEY_TIMEOUT after the last one, or after
\* something that excuses it.
LEMMA WantedIsPaced ==
    ASSUME Inv, wants_handshake(Unexpired)
    PROVE  apart >= REKEY_TIMEOUT \/ excused
<1> USE Bounds, Waits DEF Inv
<1>1. CASE waited
  BY <1>1 DEF waited, TypeOK, PacingInv
<1>2. CASE ~waited /\ revive(Unexpired)
  BY <1>2 DEF revive, TypeOK, PacingInv
<1>3. CASE ~waited /\ ~revive(Unexpired)
  <2>1. Unexpired = None /\ ~pending
    BY <1>3 DEF wants_handshake
  <2>2. QED
    BY <2>1 DEF Unexpired, TypeOK, PacingInv, None
<1>4. QED
  BY <1>1, <1>2, <1>3

\* Handshakes are REKEY_TIMEOUT apart unless a goodbye, a connection that opened
\* or a move off a stuck tuple came between them (PeerState::wants_handshake).
THEOREM HandshakesArePaced == Spec => Paced
<1> DEFINE Pace == (\E t \in {"K", "W"} : maybe_handshake(t)) /\ wants_handshake(Unexpired)
                   /\ Connection = "ready" => apart >= REKEY_TIMEOUT \/ excused
<1>1. Inv /\ [Next]_vars => [Pace]_vars
  BY WantedIsPaced
<1>2. Paced <=> [][Pace]_vars
  BY DEF Paced
<1>3. QED
  BY <1>1, <1>2, InitInv, StepInv, PTL DEF Spec
=============================================================================
