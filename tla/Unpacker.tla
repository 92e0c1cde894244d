------------------------------- MODULE Unpacker -------------------------------
(***************************************************************************)
(* The PAKO unpacker of lab_2_binary_format_handling (unpacker.c): it goes *)
(* through the entries of an archive and writes each file whose checksum,  *)
(* the exclusive or of its eight-byte segments, is the one in its entry.   *)
(*                                                                         *)
(* A byte is 0 or 1 and a segment has SegSize of them (eight). Entries are *)
(* as they are after the byte order of sizes and checksums is turned.      *)
(* Sizes are of 32 bits, and so is the arithmetic of the buffer's size;    *)
(* the offset of a segment is an int, which has half as many values from 0 *)
(* on.                                                                     *)
(* Not modelled: names of 256 bytes and more, allocations that fail.       *)
(***************************************************************************)
EXTENDS Integers, Sequences, FiniteSets

CONSTANTS
    SegSize,
    SizeValues,   \* how many values a uint32_t has
    Archives,     \* sequences of [name, filesize, content, checksum]; content
                  \* is what one read gives, shorter than filesize where the
                  \* archive ends or the read does
    Writable      \* names that open can create in the destination

ASSUME UnpackAssumption ==
    /\ SegSize \in Nat \ {0} /\ SizeValues \in Nat \ {0}
    /\ \A a \in Archives :
          /\ Len(a) \in Nat
          /\ \A i \in 1..Len(a) :
                /\ a[i].filesize \in 0..(SizeValues - 1)
                /\ a[i].content \in Seq({0, 1}) /\ Len(a[i].content) <= a[i].filesize
                /\ a[i].checksum \in [1..SegSize -> {0, 1}]

VARIABLES
    file_entries, next,   \* the archive, and the entry the loop is at
    dest,                 \* destination directory: name -> content
    killed                \* the process has run into memory that is not its own

unpackVars == <<file_entries, next, dest, killed>>

Names == {e.name : e \in UNION {{a[i] : i \in 1..Len(a)} : a \in Archives}}

UnpackTypeOK ==
    /\ file_entries \in Archives /\ next \in 1..(Len(file_entries) + 1)
    /\ DOMAIN dest \subseteq Names /\ \A n \in DOMAIN dest : dest[n] \in Seq({0, 1})
    /\ killed \in BOOLEAN

UnpackInit ==
    /\ file_entries \in Archives /\ next = 1
    /\ dest = [n \in {} |-> <<>>] /\ killed = FALSE

(* file_content: zeros up to a full segment, one more where the size is    *)
(* whole segments, with what the archive has of the file at the start. The *)
(* largest sizes wrap to a buffer of no bytes.                             *)
BufferSize(e) == (e.filesize + SegSize - (e.filesize % SegSize)) % SizeValues

Buffer(e) ==
    [j \in 1..BufferSize(e) |-> IF j <= Len(e.content) THEN e.content[j] ELSE 0]

(* ceil of a quotient of integers, and one: a whole number of segments is  *)
(* followed by a segment of zeros.                                         *)
NumSegments(e) == e.filesize \div SegSize + 1

(* Mutant: the partial segment at the end forgotten.                       *)
SumWithoutRest(e) ==
    [k \in 1..SegSize |->
        Cardinality({n \in 0..(e.filesize \div SegSize - 1) :
                        Buffer(e)[n * SegSize + k] = 1}) % 2]

(* Exclusive or is parity, bit by bit.                                     *)
Sum(e) ==
    [k \in 1..SegSize |->
        Cardinality({n \in 0..(NumSegments(e) - 1) :
                        Buffer(e)[n * SegSize + k] = 1}) % 2]

(* The sum is over segments that the buffer does not have.                 *)
Overruns(e) == NumSegments(e) * SegSize > BufferSize(e)

(* The offset of the last segment is no int: n_seg * 8 is undefined.       *)
Unfit(e) == 2 * (NumSegments(e) - 1) * SegSize >= SizeValues

(* One turn of the loop: an entry whose checksum differs, or whose file    *)
(* cannot be created, is skipped; a name that comes again is written over. *)
Extract ==
    /\ ~killed /\ next <= Len(file_entries) /\ ~Overruns(file_entries[next])
    /\ next' = next + 1
    /\ LET e == file_entries[next]
       IN  dest' = IF Sum(e) = e.checksum /\ e.name \in Writable
                   THEN [n \in DOMAIN dest \cup {e.name} |->
                           IF n = e.name THEN SubSeq(Buffer(e), 1, e.filesize)
                                         ELSE dest[n]]
                   ELSE dest
    /\ UNCHANGED <<file_entries, killed>>

(* Gigabytes past a buffer of no bytes end the process in its sum, and so  *)
(* do gigabytes before one, unless the compiler counts in addresses.       *)
Overrun ==
    /\ ~killed /\ next <= Len(file_entries)
    /\ Overruns(file_entries[next]) \/ Unfit(file_entries[next])
    /\ killed' = TRUE /\ UNCHANGED <<file_entries, next, dest>>

UnpackNext == Extract \/ Overrun

UnpackSpec == UnpackInit /\ [][UnpackNext]_unpackVars

-----------------------------------------------------------------------------
(* Correctness.                                                            *)

(* The sum as the format defines it: over the bytes of the file.           *)
Intact(e) ==
    \A k \in 1..SegSize :
        e.checksum[k] =
            Cardinality({j \in 1..Len(e.content) :
                            (j - 1) % SegSize = k - 1 /\ e.content[j] = 1}) % 2

TooLarge(size) == 2 * size >= SizeValues \/ size + SegSize >= SizeValues

(* A name is unpacked exactly when an entry of it with a right checksum    *)
(* was reached, whatever its size leaves of a segment, and holds the bytes *)
(* of the last such entry; and segments are read outside a buffer only for *)
(* sizes that are no int or too near the end of 32 bits to be rounded up.  *)
UnpacksTheIntact ==
    LET good(n) == {i \in 1..(next - 1) : /\ file_entries[i].name = n
                                          /\ n \in Writable /\ Intact(file_entries[i])}
    IN  /\ DOMAIN dest = {n \in Names : good(n) # {}}
        /\ \A n \in DOMAIN dest : \E i \in good(n) :
              /\ \A j \in good(n) : j <= i
              /\ Len(dest[n]) = file_entries[i].filesize
              /\ SubSeq(dest[n], 1, Len(file_entries[i].content)) = file_entries[i].content
        /\ killed => /\ next <= Len(file_entries)
                     /\ TooLarge(file_entries[next].filesize)

(* As it is, this is inductive with the types.                             *)
UnpackInv == UnpackTypeOK /\ UnpacksTheIntact
=============================================================================
