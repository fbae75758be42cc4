------------------------------ MODULE SeiCodec ------------------------------
(***************************************************************************)
(* The bytes in which box sets travel, and the two programs that must      *)
(* agree on them: the child builds a prefix-SEI unit with emulation        *)
(* prevention in C (sei_build_nal_h265, TX/engine_enc_src/sei_box.h), the  *)
(* viewer finds and reads it in Python (_iter_nals, _rbsp_unescape,        *)
(* _parse_sei_boxes, RX/uav_view.py).                                      *)
(*                                                                         *)
(* Bytes are numbers. The UUID and the value that continues a size code    *)
(* are constants, so that a small instance has payloads on both sides of   *)
(* the continuation; the fields inside the payload are left out. No name   *)
(* here is a variable of SeiInject, so TLC evaluates AllSurvive once.      *)
(***************************************************************************)
EXTENDS Integers, Sequences, SequencesExt, FiniteSetsExt

CONSTANTS
  Uuid,         \* SEI_BOX_UUID, 16 bytes
  Ff,           \* 255, the byte that continues a type or size code
  PayloadBytes, \* bound: the bytes payloads are made of
  MaxPayload    \* bound: the longest payload

ASSUME UuidAssumption == Uuid \in Seq(Nat) /\ Uuid # <<>>
ASSUME FfAssumption == Ff \in Nat /\ Ff > 5
ASSUME BytesAssumption == PayloadBytes \subseteq Nat /\ MaxPayload \in Nat

StartCode == <<0, 0, 0, 1>>
PrefixSeiType == 39           \* nal_unit_type
PrefixSei == <<78, 1>>        \* the two bytes of its header
UserData == 5                 \* payloadType
Trailing == 128               \* rbsp_trailing_bits

-----------------------------------------------------------------------------
(* The child                                                                *)

\* Mutant: 3 itself is not escaped.
EmitBelowThree(s, v) ==
  LET escape == s.zeros >= 2 /\ v < 3
      run == IF escape THEN 0 ELSE s.zeros
  IN [out |-> s.out \o (IF escape THEN <<3, v>> ELSE <<v>>),
      zeros |-> IF v = 0 THEN run + 1 ELSE 0]

\* sei_emit_rbsp_byte: a 3 goes between two zeros and a byte up to 3.
Emit(s, v) ==
  LET escape == s.zeros >= 2 /\ v <= 3
      run == IF escape THEN 0 ELSE s.zeros
  IN [out |-> s.out \o (IF escape THEN <<3, v>> ELSE <<v>>),
      zeros |-> IF v = 0 THEN run + 1 ELSE 0]

\* payloadSize: as many continuation bytes as fit, then the rest, which may be 0.
SizeCode(n) == [i \in 1..(n \div Ff) |-> Ff] \o <<n % Ff>>

\* What has been written after every byte.
Emitted(rbsp) ==
  LET run[k \in 0..Len(rbsp)] ==
        IF k = 0 THEN [out |-> <<>>, zeros |-> 0] ELSE Emit(run[k - 1], rbsp[k])
  IN run

Escaped(rbsp) == Emitted(rbsp)[Len(rbsp)].out

\* The unit for one payload; start code and header are not escaped.
BuildNal(p) ==
  LET rbsp == <<UserData>> \o SizeCode(Len(Uuid) + Len(p)) \o Uuid
              \o p \o <<Trailing>>
  IN StartCode \o PrefixSei \o Escaped(rbsp)

-----------------------------------------------------------------------------
(* The viewer                                                               *)

\* The bytes 0, 0, v stand at place i.
PatternAt(b, i, v) == i + 2 <= Len(b) /\ b[i] = 0 /\ b[i + 1] = 0 /\ b[i + 2] = v

\* The slice from i to j as Python takes it, and the slice from i to the end.
Slice(b, i, j) == SubSeq(b, i, IF j > Len(b) THEN Len(b) ELSE j)
From(b, i) == SubSeq(b, i, Len(b))

\* _rbsp_unescape: every 0, 0, 3 becomes 0, 0.
Unescaped(b) ==
  LET from[i \in 1..(Len(b) + 1)] ==
        IF i > Len(b) THEN <<>>
        ELSE IF PatternAt(b, i, 3) THEN <<0, 0>> \o from[i + 3]
        ELSE <<b[i]>> \o from[i + 1]
  IN from

Unescape(b) == Unescaped(b)[1]

TrimZeros(b) == SubSeq(b, 1, Max({0} \cup {i \in DOMAIN b : b[i] # 0}))

\* _iter_nals: the places behind the start codes of an access unit, and the unit
\* that begins at one of them, up to the next one and without the zeros before it.
Starts(au) == {s \in 4..(Len(au) + 1) : PatternAt(au, s - 3, 1)}

NalAt(au, s) ==
  LET later == {e \in Starts(au) : e > s}
  IN TrimZeros(SubSeq(au, s, IF later = {} THEN Len(au) ELSE Min(later) - 4))

\* The type or size code at place i of b: its value and the place behind it. The
\* set is empty when b ends within the code.
CodeAt(b, i) ==
  {[value |-> (last - i) * Ff + b[last], next |-> last + 1] :
     last \in {k \in i..Len(b) : b[k] # Ff /\ \A j \in i..(k - 1) : b[j] = Ff}}

\* The SEI message at place i, if b does not end within its codes.
MessageAt(b, i) ==
  UNION {{[type |-> type.value, next |-> size.next + size.value,
           body |-> Slice(b, size.next, size.next + size.value - 1)]
            : size \in CodeAt(b, type.next)} : type \in CodeAt(b, i)}

Ours(message) == message.type = UserData /\ IsPrefix(Uuid, message.body)

\* The messages of one SEI unit from a place on, up to ours: the set holds its
\* payload, if any.
Messages(rbsp) ==
  LET from[i \in 1..(Len(rbsp) + 1)] ==
        UNION {IF Ours(m) THEN {From(m.body, Len(Uuid) + 1)}
               ELSE IF m.next > Len(rbsp) THEN {} ELSE from[m.next]
               : m \in MessageAt(rbsp, i)}
  IN from

\* The payload in a unit, if it is a prefix SEI that has one of ours.
PayloadOf(nal) ==
  IF Len(nal) >= 2 /\ (nal[1] \div 2) % 64 = PrefixSeiType
    THEN Messages(Unescape(From(nal, 3)))[1] ELSE {}

\* _parse_sei_boxes: the payload in the first unit that has one.
Parse(au) ==
  LET found == {s \in Starts(au) : PayloadOf(NalAt(au, s)) # {}}
  IN IF found = {} THEN {} ELSE PayloadOf(NalAt(au, Min(found)))

-----------------------------------------------------------------------------
(* Both sides together                                                      *)

Payloads == BoundedSeq(PayloadBytes, MaxPayload)

\* The access units a payload is put in front of: a slice, or an encoder's own SEI
\* and a slice, after start codes of either length.
Units == {<<0, 0, 1, 2, 1, 9>>,
          StartCode \o PrefixSei \o <<4, 1, 9, Trailing>> \o <<0, 0, 1, 2, 1, 9>>}

\* The viewer gets a payload as it was sent, and the units behind it as without.
Survives(p, au) ==
  LET nal == BuildNal(p)
      sent == nal \o au
  IN /\ Parse(sent) = {p}
     /\ {s \in Starts(sent) : s > Len(nal)} = {Len(nal) + s : s \in Starts(au)}
     /\ \A s \in Starts(au) : NalAt(sent, Len(nal) + s) = NalAt(au, s)

AllSurvive == \A p \in Payloads, au \in Units : Survives(p, au)
=============================================================================
