---------------------------------- MODULE Md5 ----------------------------------
(***************************************************************************)
(* src/src/server/hash_md5.c: how a message of any length, given in calls   *)
(* of any size, is cut into blocks, counted and padded.  What body computes *)
(* of a block is not interpreted: the digest is the bytes it has absorbed,  *)
(* and the message's bytes are told apart by their places.  The program     *)
(* hashes in one call (hash_md5_binary); MD5_Update is written for a        *)
(* message in several, and is modelled for them.                            *)
(***************************************************************************)
EXTENDS Integers, SequencesExt

CONSTANTS Block,      \* bytes of a block: 64
          LenBytes,   \* bytes of the length at the end of the last one: 8
          LoMod,      \* lo counts up to this, 2^29
          HiMod,      \* and hi up to this, 2^32
          MaxLen      \* bound of a message's length

ASSUME Md5Assumption ==
  /\ {Block, LenBytes, LoMod, HiMod} \subseteq Nat \ {0}
  /\ LenBytes < Block
  /\ LoMod % Block = 0
  /\ MaxLen \in Nat

\* Bytes: of the message, of the padding, of its length, and left on the stack.
Byte(i) == <<"message", i>>
X80     == <<"padding", 128>>
Zero    == <<"padding", 0>>
Junk    == <<"stack", 0>>
Message(from, to) == [i \in 1 .. to - from + 1 |-> Byte(from + i - 1)]
Zeros(n) == [i \in 1 .. n |-> Zero]

\* The length in bits, the low word first: lo <<= 3 happens here.
LengthField(lo, hi) ==
  [j \in 1 .. LenBytes |->
     <<"length", j, IF j <= LenBytes \div 2 THEN 8 * lo ELSE hi>>]

VARIABLES ctx,      \* the MD5_CTX; absorbed stands for its a, b, c and d
          len,      \* bytes given to MD5_Update since MD5_Init
          stage,    \* "unused", "open" from MD5_Init on, "done" after MD5_Final
          result    \* what MD5_Final stored

vars == <<ctx, len, stage, result>>

Bytes == {X80, Zero, Junk} \cup {Byte(i) : i \in 1 .. MaxLen}
           \cup {<<"length", j, n>> : j \in 1 .. LenBytes, n \in 0 .. 8 * LoMod + HiMod}

Context == [lo : 0 .. LoMod - 1, hi : 0 .. HiMod - 1,
            buffer : Seq(Bytes), absorbed : Seq(Bytes)]

TypeOK == /\ ctx \in Context
          /\ Len(ctx.buffer) = Block /\ Len(ctx.absorbed) % Block = 0
          /\ len \in 0 .. MaxLen
          /\ stage \in {"unused", "open", "done"}
          /\ result \in Seq(Bytes)

OnStack == [lo |-> 0, hi |-> 0, absorbed |-> << >>, buffer |-> [i \in 1 .. Block |-> Junk]]
Cleared == [OnStack EXCEPT !.buffer = Zeros(Block)]

Init == ctx = OnStack /\ len = 0 /\ stage = "unused" /\ result = << >>

-------------------------------------------------------------------------------
\* memcpy or memset into the buffer; bytes written past its end make it longer.
Filled(c, used, bytes) ==
  [c EXCEPT !.buffer = SubSeq(@, 1, used) \o bytes
                         \o SubSeq(@, used + Len(bytes) + 1, Block)]

\* A whole number of blocks, one at least, goes through the rounds.
body(c, bytes) == [c EXCEPT !.absorbed = @ \o bytes]

Initialised(c) == [c EXCEPT !.lo = 0, !.hi = 0, !.absorbed = << >>]

Counted(c, size) ==
  LET lo == (c.lo + size) % LoMod IN
  [c EXCEPT !.lo = lo,
            !.hi = (@ + (IF lo < c.lo THEN 1 ELSE 0) + size \div LoMod) % HiMod]

\* Mutant: a buffer that has just become full is left for later.
StillFits_full(used, size) == used # 0 /\ size <= Block - used

StillFits(used, size) == used # 0 /\ size < Block - used

\* Mutant: the rest of the message is left behind the bytes before it.
Kept_behind(c, used, bytes) == Filled(c, used, bytes)

\* What is left of a call starts a new block.
Kept(c, used, bytes) == Filled(c, 0, bytes)

Updated(c, bytes) ==
  LET size == Len(bytes)
      used == c.lo % Block
      counted == Counted(c, size)
  IN IF StillFits(used, size) THEN Filled(counted, used, bytes)
     ELSE LET top == IF used = 0 THEN 0 ELSE Block - used
              whole == top + ((size - top) \div Block) * Block
              full == Filled(counted, used, SubSeq(bytes, 1, top))
              topped == IF used = 0 THEN counted ELSE body(full, full.buffer)
          IN Kept(body(topped, SubSeq(bytes, top + 1, whole)), used,
                  SubSeq(bytes, whole + 1, size))

\* Mutant: the length always wants a block of its own when it would just fit.
NoRoomForLength_tight(used) == Block - used <= LenBytes

\* used counts the 0x80 as well.
NoRoomForLength(used) == Block - used < LenBytes

\* The context before the last block: the 0x80, and a block of zeros if need be.
Padded80(c) ==
  LET used == (c.lo % Block) + 1
      marked == Filled(c, used - 1, <<X80>>)
      filled == Filled(marked, used, Zeros(Block - used))
  IN IF NoRoomForLength(used)
     THEN Filled(body(filled, filled.buffer), 0, Zeros(Block - LenBytes))
     ELSE Filled(marked, used, Zeros(Block - used - LenBytes))

Finished(c) ==
  LET last == Filled(Padded80(c), Block - LenBytes, LengthField(c.lo, c.hi))
  IN body(last, last.buffer)

-------------------------------------------------------------------------------
\* On a new context, or on one that was used before.
MD5_Init == /\ stage # "open"
            /\ \E c \in {OnStack, ctx} : ctx' = Initialised(c)
            /\ len' = 0 /\ stage' = "open"
            /\ UNCHANGED result

MD5_Update(size) == /\ stage = "open"
                    /\ ctx' = Updated(ctx, Message(len + 1, len + size))
                    /\ len' = len + size
                    /\ UNCHANGED <<stage, result>>

MD5_Final == /\ stage = "open"
             /\ result' = Finished(ctx).absorbed
             /\ ctx' = Cleared
             /\ stage' = "done"
             /\ UNCHANGED len

\* The three calls on a context of its own; ctx is not the program's then.
hash_md5_binary(size) ==
  /\ stage # "open"
  /\ result' = Finished(Updated(Initialised(OnStack), Message(1, size))).absorbed
  /\ len' = size /\ stage' = "done"
  /\ UNCHANGED ctx

Next == \/ MD5_Init \/ MD5_Final
        \/ \E size \in 0 .. MaxLen - len : MD5_Update(size)
        \/ \E size \in 0 .. MaxLen : hash_md5_binary(size)

Spec == Init /\ [][Next]_vars

-------------------------------------------------------------------------------
BufferHoldsTail ==
  ctx.absorbed \o SubSeq(ctx.buffer, 1, ctx.lo % Block) = Message(1, len)

LengthCounted == ctx.hi * LoMod + ctx.lo = len % (HiMod * LoMod)

(***************************************************************************)
(* The blocks absorbed and the used part of the buffer are the message so   *)
(* far, each byte once and in its place, however the calls cut it: the      *)
(* borders of MD5_Update (hash_md5.c:181-202).  And lo and hi count it as   *)
(* one number of both words' width, through every carry (176-179).          *)
(***************************************************************************)
BytesAccounted == stage = "open" => BufferHoldsTail /\ LengthCounted

\* MD5's padding: 0x80, zeros up to the last LenBytes of a block, the length.
PaddedMessage(n) ==
  Message(1, n) \o <<X80>> \o Zeros((-(n + 1 + LenBytes)) % Block)
    \o LengthField(n % LoMod, (n \div LoMod) % HiMod)

(***************************************************************************)
(* The digest is that of the padded message: the same for every way to cut  *)
(* the message into calls and for one call, whatever the context held       *)
(* before (no byte of the stack or of an earlier message gets in).          *)
(***************************************************************************)
DigestOfPadding == stage = "done" => result = PaddedMessage(len)
===============================================================================
