---------------------------- MODULE LadderConfig ----------------------------
(***************************************************************************)
(* How the levels of the ladder are read from YOLO_AQC_LEVELS              *)
(* (aqc_parse_levels, TX/engine_enc_src/uav_enc.cpp): entries between      *)
(* commas, each a bitrate with an optional "@30", a bad one of which must  *)
(* not harm its neighbours.                                                *)
(*                                                                         *)
(* A text is a sequence of tokens: a number stands for its digits (two     *)
(* numbers never meet), Junk for anything that is neither a digit, "@",    *)
(* "," nor a blank.                                                        *)
(***************************************************************************)
EXTENDS Integers, Sequences, SequencesExt, FiniteSetsExt

CONSTANTS
  At, Comma, Blank, Junk,   \* the tokens that are no numbers
  Numbers,                  \* bound: the numbers of a text
  HalfRate,                 \* 30, the one frame rate that can be asked for
  MaxLevels,                \* AQC_MAX_LEVELS
  MaxText                   \* bound: tokens in a text, without a first entry

ASSUME NumbersAssumption == Numbers \subseteq Nat /\ HalfRate \in Numbers
ASSUME TokensAssumption ==
  /\ At \notin {Comma, Blank, Junk} /\ Comma \notin {Blank, Junk} /\ Blank # Junk
  /\ {At, Comma, Blank, Junk} \cap Numbers = {}
ASSUME LimitsAssumption == MaxLevels \in Nat \ {0} /\ MaxText \in Nat

Separators == {Comma, Blank}
Tokens == Numbers \cup Separators \cup {At, Junk}
Defaults == <<>>            \* stands for the six levels built in

-----------------------------------------------------------------------------
(* The parser. A place is an index into the text, Len(t) + 1 its end.       *)

\* The first place from i on with a token of S.
FirstOf(t, i, S) == Min({j \in i..Len(t) : t[j] \in S} \cup {Len(t) + 1})

\* The place of the number strtol reads at i, after blanks; none when it reads none.
NumberAt(t, i) == {FirstOf(t, i, Tokens \ {Blank})} \cap {j \in DOMAIN t : t[j] \in Numbers}

\* Mutant: after a bad start the entry is tried again one token later.
NextEntryStepwise(t, i) ==
  FirstOf(t, IF i > Len(t) \/ t[i] \in Separators THEN i ELSE i + 1, Tokens \ Separators)

\* From a place where an entry has been read as far as it goes: what is left of it
\* is skipped up to its comma, and then the separators.
NextEntry(t, i) ==
  FirstOf(t, IF i > Len(t) \/ t[i] \in Separators THEN i ELSE FirstOf(t, i, {Comma}),
          Tokens \ Separators)

\* The suffix at i: how the frame rate is divided, and the place behind.
SuffixAt(t, i) ==
  IF i > Len(t) \/ t[i] # At THEN [div |-> 1, next |-> i]
  ELSE LET fps == NumberAt(t, i + 1)
       IN [div |-> IF \E j \in fps : t[j] = HalfRate THEN 2 ELSE 1,
           next |-> IF fps = {} THEN i + 1 ELSE Max(fps) + 1]

\* The level of an entry whose number is at j, none for 0.
LevelAt(t, j) == IF t[j] > 0 THEN <<[kbps |-> t[j], div |-> SuffixAt(t, j + 1).div]>> ELSE <<>>

\* The loop of the parser, one entry per turn.
Entries(t) ==
  LET from[i \in 1..(Len(t) + 1)] ==
        LET number == NumberAt(t, i)
            j == Max(number)
        IN IF i > Len(t) THEN <<>>
           ELSE IF number = {} THEN from[NextEntry(t, i)]
           ELSE LevelAt(t, j) \o from[NextEntry(t, SuffixAt(t, j + 1).next)]
  IN from[1]

\* The loop ends when the table is full; a ladder needs two levels.
Accepted(levels) ==
  IF Len(levels) < 2 THEN Defaults ELSE SubSeq(levels, 1, Min({Len(levels), MaxLevels}))

Ladder(t) == Accepted(Entries(t))

-----------------------------------------------------------------------------
(* The format as it is meant: every entry on its own                        *)

\* Texts without blanks inside an entry: a blank there separates as well.
WellFormed(t) == \A i \in 2..Len(t) : /\ t[i] = Blank => t[i - 1] \in Separators
                                      /\ t[i] \in Numbers => t[i - 1] \notin Numbers
Short == {t \in BoundedSeq(Tokens, MaxText) : WellFormed(t)}

\* The short ones, alone and behind a good entry.
Texts == Short \cup {<<HalfRate, Comma>> \o t : t \in Short}

\* An entry begins at the beginning of the text and behind every separator; it gives
\* a level when its first token is a number, halved when "@30" follows at once.
\* Anything else in it is ignored.
BeginsLevel(t, i) == t[i] \in Numbers \ {0} /\ (i = 1 \/ t[i - 1] \in Separators)
Halved(t, i) == i + 2 <= Len(t) /\ t[i + 1] = At /\ t[i + 2] = HalfRate
MeantAt(t, i) ==
  IF BeginsLevel(t, i) THEN <<[kbps |-> t[i], div |-> IF Halved(t, i) THEN 2 ELSE 1]>> ELSE <<>>

MeantEntries(t) == FlattenSeq([i \in DOMAIN t |-> MeantAt(t, i)])

\* By level, the texts that do not give that level as it is meant.
MisreadAt ==
  [k \in 1..MaxLevels |->
     {t \in Texts : LET meant == Accepted(MeantEntries(t))
                    IN Len(Ladder(t)) # Len(meant)
                       \/ (k <= Len(meant) /\ Ladder(t)[k] # meant[k])}]
=============================================================================
