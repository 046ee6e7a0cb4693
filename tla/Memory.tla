------------------------------- MODULE Memory -------------------------------
(* The two pure computations of the kernel, and the one caller of the first: *)
(* mem_v2p and init_memory of src/src/memory/memory.c, and rgb_565 of        *)
(* src/src/video/palette.c.  Words are of 32 bits; a mask of low bits is a   *)
(* remainder, a shift a division.                                            *)
EXTENDS Integers

CONSTANT
  Table0        \* address of pagetable0, aligned to 256 bytes

VARIABLES
  memory,       \* address of a word -> its contents
  ttbr0         \* translation table base register 0 of the MMU

Words == {n \in Nat : n < 4294967296}
Wrapped(n) == n % 4294967296
KB == 1024
MB == 1048576

VIRTUAL_ADDRESS_BASE == 2147483648
MEMORY_SIZE == 64               \* descriptors of pagetable0
pagetable == VIRTUAL_ADDRESS_BASE + 16384       \* mem_p2v(0x4000)
NotMapped == 4294967295

\* d & ~(size - 1), for a size that is a power of two.
Aligned(d, size) == d - (d % size)

\* An address in a page of that size at what the descriptor says.
InPage(d, size, v) == Aligned(d, size) + (v % size)

\* The entries for an address in the first table and in a coarse one, of memory m.
Descriptor(m, v) == m[pagetable + 4 * (v \div MB)]
Coarse(m, v) ==
  m[Wrapped(VIRTUAL_ADDRESS_BASE + Aligned(Descriptor(m, v), KB))
         + 4 * ((v \div (4 * KB)) % 256)]

Bit(d, weight) == (d \div weight) % 2 = 1

\* Of a supersection too the base is what is above one megabyte.
mem_v2p(m, v) ==
  LET d == Descriptor(m, v)
      c == Coarse(m, v)
  IN  CASE d % 4 = 1 /\ c % 4 = 0 -> NotMapped
        [] d % 4 = 1 /\ c % 4 = 1 -> InPage(c, 64 * KB, v)
        [] d % 4 = 1 /\ c % 4 > 1 -> InPage(c, 4 * KB, v)
        [] d % 4 = 2 /\ Bit(d, 262144)    -> Wrapped(Aligned(d, MB) + (v % (16 * MB)))
        [] d % 4 = 2 /\ ~Bit(d, 262144)   -> InPage(d, MB, v)
        [] OTHER                          -> NotMapped

\* The table is cleared; then its own address is translated.
init_memory ==
  /\ memory' = [a \in Words |->
       IF a \in Table0 .. Table0 + 4 * MEMORY_SIZE - 1 THEN 0 ELSE memory[a]]
  /\ ttbr0' = mem_v2p(memory', Table0)

-----------------------------------------------------------------------------
\* palette.c: the components lose their low bits and are packed, 5-6-5.
rgb_565(rgb) ==
  LET R == (rgb \div 65536) % 256
      G == (rgb \div 256) % 256
      B == rgb % 256
  IN  Aligned(R, 8) * 256 + Aligned(G, 4) * 8 + B \div 8
=============================================================================
