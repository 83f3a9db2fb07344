------------------------------ MODULE TimerWheel ------------------------------
(***************************************************************************)
(* The geometry of the timer wheel (TimerDefine.h, TimerWheel.cpp): which  *)
(* circular list a timer belongs to, and which lists a tick cascades.  The *)
(* lists of the first wheel are <<0, index>>, those of twOther[i] are      *)
(* <<i + 1, index>>.                                                       *)
(*                                                                         *)
(* The code has FSize = 256 and NSize = 64; with four other wheels a tick  *)
(* has the 32 bits of a uint32_t, so a small instance has a small integer. *)
(***************************************************************************)
EXTENDS Integers

CONSTANTS FSize,    \* TWF_SIZE, a power of 2
          NSize,    \* TWN_SIZE, a power of 2
          NullPtr   \* a null LinkNode pointer

ASSUME SizeAssumption ==
  /\ FSize \in Nat \ {0} /\ \E b \in 1 .. FSize : FSize = 2^b
  /\ NSize \in Nat \ {0} /\ \E b \in 1 .. NSize : NSize = 2^b

OtherWheel == 0 .. 3

\* How many ticks a turn of the first wheel, of twOther[0], ... takes; a list
\* of twOther[i] stands for Turn[i + 1] ticks.
Turn == <<FSize,
          FSize * NSize,
          FSize * NSize * NSize,
          FSize * NSize * NSize * NSize,
          FSize * NSize * NSize * NSize * NSize>>

Uint32Size == Turn[5]
Uint32     == 0 .. Uint32Size - 1

\* Arithmetic on uint32_t wraps.
Wrap(v) == v % Uint32Size

FirstIndex(v)  == v % FSize
NthIndex(v, i) == (v \div Turn[i + 1]) % NSize

FirstWheel == {0} \X (0 .. FSize - 1)
Slots      == FirstWheel \cup ({i + 1 : i \in OtherWheel} \X (0 .. NSize - 1))

\* compareVal of _TimerWheel_add and TimerWheel_pause.  For the last wheel the
\* shift is by 32, the width of the int: whatever the build makes of it (0 and
\* 1 are what compilers produce), it exceeds no idx that reaches the test.
CompareVal(i) == IF i = 3 THEN 0 ELSE Turn[i + 2]

\* The list for a timer that expires at `expire`, not before the current tick:
\* the one the loop over the other wheels stops at, or none.
HeadOf(tick, expire) ==
  LET idx  == expire - tick
      fits == {i \in OtherWheel : CompareVal(i) > idx}
  IN  IF idx < FSize THEN <<0, FirstIndex(expire)>>
      ELSE IF fits = {} THEN NullPtr
      ELSE LET i == CHOOSE j \in fits : \A k \in fits : j <= k
           IN  <<i + 1, NthIndex(expire, i)>>

\* _TimerWheel_add drops an expired timer, and links the others to their list:
\* through a null pointer when there is none.
Expired(tick, expire) == expire < tick
NoHead(tick, expire)  == ~Expired(tick, expire) /\ HeadOf(tick, expire) = NullPtr

Placed(tick, expire, links) ==
  IF Expired(tick, expire) THEN links ELSE HeadOf(tick, expire)

\* Mutant: only the first of the other wheels is cascaded.
CascadedFirstOnly(tick) ==
  IF FirstIndex(tick) # 0 THEN {} ELSE {<<1, NthIndex(tick, 0)>>}

\* The lists a tick hands down: that of twOther[0] when the first wheel comes
\* round, and that of the next wheel for as long as the index is 0.
Cascaded(tick) ==
  IF FirstIndex(tick) # 0 THEN {}
  ELSE {<<i + 1, NthIndex(tick, i)>> :
          i \in {j \in OtherWheel : \A k \in 0 .. j - 1 : NthIndex(tick, k) = 0}}
================================================================================
