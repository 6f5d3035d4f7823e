---------------------------- MODULE ReplayWindow ----------------------------
(***************************************************************************)
(* The replay window of one receiving session (paqetz-core, replay.rs), as *)
(* Session::open (noise.rs) drives it: consult, authenticate, record.      *)
(*                                                                         *)
(* The bitmap is a ring of words.  A word is the set of its bits that are  *)
(* one, so `w | bit` is a union and `w & bit != 0` a membership.           *)
(***************************************************************************)
EXTENDS Naturals

CONSTANTS WORDS,            \* words in the ring: 32 in the code
          BITS_PER_WORD,    \* 64 in the code
          Counters          \* the counters packets carry

ASSUME ReplayAssumption == /\ WORDS \in Nat \ {0}
                           /\ BITS_PER_WORD \in Nat \ {0}
                           /\ Counters \subseteq Nat

VARIABLES bitmap, highest, started,
          taken             \* history: how often open() has returned Ok for each counter

vars == <<bitmap, highest, started, taken>>

accepted == {c \in Counters : taken[c] > 0}

\* Mutant of WINDOW_SIZE: no spare word.
WholeRing == WORDS * BITS_PER_WORD

WINDOW_SIZE == WORDS * BITS_PER_WORD - BITS_PER_WORD

Slots == 0 .. WORDS - 1
Bits  == 0 .. BITS_PER_WORD - 1

TypeOK == /\ bitmap \in [Slots -> SUBSET Bits]
          /\ highest \in Nat
          /\ started \in BOOLEAN
          /\ taken \in [Counters -> Nat]

-----------------------------------------------------------------------------
word_index(word) == word % WORDS

\* The word number a counter falls in, before it is folded into the ring.
WordOf(c) == c \div BITS_PER_WORD

is_set(c) == (c % BITS_PER_WORD) \in bitmap[word_index(WordOf(c))]

WithBit(map, c) ==
    [map EXCEPT ![word_index(WordOf(c))] = @ \cup {c % BITS_PER_WORD}]

check(c) == \/ ~started
            \/ c > highest
            \/ highest - c <= WINDOW_SIZE /\ ~is_set(c)

\* Mutant of Skipped: the word of c itself is left as it was.
SkippedShort(c) ==
    LET gap == WordOf(c) - WordOf(highest)
    IN  {word_index(WordOf(highest) + i) : i \in 1 .. (IF gap < WORDS THEN gap ELSE WORDS) - 1}

\* The ring slots that moving the high-water mark up to c recycles: at most
\* WORDS of them, starting after the word of the old mark.
Skipped(c) ==
    LET gap == WordOf(c) - WordOf(highest)
    IN  {word_index(WordOf(highest) + i) : i \in 1 .. (IF gap < WORDS THEN gap ELSE WORDS)}

Cleared(c) == [s \in Slots |-> IF s \in Skipped(c) THEN {} ELSE bitmap[s]]

\* Mutant of commit: a late packet takes the high-water mark back to itself.
CommitLowers(c) ==
    /\ started' = TRUE
    /\ highest' = c
    /\ bitmap' = IF started /\ c > highest THEN WithBit(Cleared(c), c) ELSE WithBit(bitmap, c)

commit(c) ==
    /\ started' = TRUE
    /\ \/ /\ ~started
          /\ highest' = c
          /\ bitmap' = WithBit(bitmap, c)
       \/ /\ started /\ c > highest
          /\ highest' = c
          /\ bitmap' = WithBit(Cleared(c), c)
       \/ /\ started /\ c <= highest
          /\ highest' = highest
          /\ bitmap' = WithBit(bitmap, c)

-----------------------------------------------------------------------------
Init == /\ bitmap = [s \in Slots |-> {}]
        /\ highest = 0
        /\ started = FALSE
        /\ taken = [c \in Counters |-> 0]

\* A packet the peer sealed: it passes the window, then the AEAD, and only
\* then is it recorded.
OpenGenuine(c) == /\ check(c)
                  /\ commit(c)
                  /\ taken' = [taken EXCEPT ![c] = @ + 1]

\* A packet the AEAD refuses: whatever its header says, nothing is recorded.
OpenForged(c) == /\ check(c)
                 /\ UNCHANGED vars

Next == \E c \in Counters : OpenGenuine(c) \/ OpenForged(c)

Spec == Init /\ [][Next]_vars

-----------------------------------------------------------------------------
Filter == INSTANCE AntiReplay WITH WindowSize <- WINDOW_SIZE

\* The window implements the abstract filter: open() never returns a counter
\* twice (replay.rs `check` and `commit` together), whatever the order of
\* arrival and however often the ring has wrapped.
TakesEachCounterOnce == Filter!Spec

\* check() is exact in both directions.  The ring never lets a counter through
\* twice, and no recycled word ever makes it refuse a counter that is inside
\* the window and has not been seen (the words cleared by `commit`).
CheckIsExact == \A c \in Counters : check(c) <=> Filter!Fresh(c)

\* A word the ring still holds: the last WORDS of them.
Live(word) == word <= WordOf(highest) /\ WordOf(highest) < word + WORDS

\* The ring is a faithful picture of what open() has accepted: `highest` is the
\* largest counter accepted, and in every word still held a bit is set exactly
\* for the counters accepted -- no stale bit survives `commit` skipping words.
RingMirrorsAccepted ==
    /\ started <=> accepted # {}
    /\ ~started => bitmap = [s \in Slots |-> {}]
    /\ started => /\ highest \in accepted
                  /\ \A a \in accepted : a <= highest
                  /\ \A c \in Counters : Live(WordOf(c)) => (is_set(c) <=> c \in accepted)
=============================================================================
