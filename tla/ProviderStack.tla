----------------------------- MODULE ProviderStack -----------------------------
(***************************************************************************)
(* How a read of a mounted file comes down to bytes of the image: the      *)
(* providers that createProvider stacks on one another, each of which      *)
(* rounds, splits, clamps or pads the request.  From the bottom up: the    *)
(* mapped file, the NCA section, AES-CTR under a block cache, a hash layer *)
(* under another one, the file's entry.  A read returns how many bytes it  *)
(* delivered and the bytes; a failed one delivers none.                    *)
(*                                                                         *)
(* The block caches never hold a block: pushBlock gives up as long as      *)
(* mCache is empty, and nothing else ever makes a node.  A read through a  *)
(* CacheProvider is therefore the one below that misses every time.        *)
(* Sha256Provider zeroes no hash here (Sha256Provider.tla has that), and   *)
(* IntegrityVerificationProvider remembers no verified block.              *)
(***************************************************************************)
EXTENDS Integers, FiniteSets

CONSTANTS
  AesBlock,     \* AesCtrProvider::cBlockSize (0x10)
  CtrCache,     \* the largest cache block of createAesCtrProvider (0x800)
  MaxCache,     \* CacheProvider::cMaxBlockSize (0x10000)
  Images,       \* the images that are mounted (see AnyImage)
  MaxOffset,    \* bounds of the model: the largest offset and size of a request,
  MaxSize,
  MaxOverrun    \* and how far a file's entry may reach behind the end

\* fileSize, corrupt: the file's size and the positions of its altered bytes;
\* section, sectionSize: where the section lies; encrypted: with AES-CTR;
\* hash, block: the hash layer and its block size; data, dataSize: the hash
\* layer's data region in the section.
AnyImage ==
  [fileSize : Nat, corrupt : SUBSET Nat, section : Nat, sectionSize : Nat,
   encrypted : BOOLEAN, hash : {"none", "sha256", "ivfc"}, block : Nat \ {0},
   data : Nat, dataSize : Nat]

\* A section begins at a sector, which is a number of AES blocks.
ASSUME StackAssumption ==
  /\ AesBlock \in Nat \ {0} /\ CtrCache \in Nat \ {0} /\ MaxCache \in Nat \ {0}
  /\ CtrCache % AesBlock = 0 /\ CtrCache <= MaxCache
  /\ MaxOffset \in Nat /\ MaxSize \in Nat /\ MaxOverrun \in Nat
  /\ Images \subseteq AnyImage
  /\ \A m \in Images : m.section % AesBlock = 0

VARIABLES
  image,        \* the image that is mounted
  request,      \* the last read, as the file system puts it to the file
  answer        \* what came back

vars == <<image, request, answer>>

Zero == <<"zero">>
Junk == <<"junk">>                  \* never written, deciphered wrongly, or altered
Plain(p) == <<"plain", p>>          \* what the section should hold at p
Cipher(p) == <<"cipher", p>>        \* the encrypted byte at position p of the file

Least(a, b) == IF a < b THEN a ELSE b
AlignDown(n, align) == (n \div align) * align
AlignUp(n, align) == ((n + align - 1) \div align) * align

\* A layer is a function from the size of a request to one from its offset to
\* what is delivered: the bytes, as a function on 0 .. n - 1.
Fails == [i \in {} |-> Junk]
Delivered(bytes) == Cardinality(DOMAIN bytes)

-----------------------------------------------------------------------------
\* MemMappedFile::read
MappedByte(p) ==
  IF p \in image.corrupt THEN Junk
  ELSE IF image.encrypted THEN Cipher(p)
  ELSE Plain(p - image.section)

MappedRead ==
  [size \in Nat |-> [offset \in Nat |->
     IF size = 0 \/ offset >= image.fileSize THEN Fails
     ELSE [i \in 0 .. Least(size, image.fileSize - offset) - 1 |-> MappedByte(offset + i)]]]

\* IBytesProvider::Clamp
Clamp(size, offset, total) ==
  IF offset >= total THEN 0 ELSE Least(size, total - offset)

\* OffsetProvider: the part of the inner provider from `start`, `length` long.
OffsetSize(innerSize, start, length) == Least(length, innerSize - Least(start, innerSize))

OffsetRead(inner, total, start) ==
  [size \in Nat |-> [offset \in Nat |->
     LET n == Clamp(size, offset, total)
     IN IF n = 0 THEN Fails ELSE inner[n][start + offset]]]

-----------------------------------------------------------------------------
\* CacheProvider::read: every block the request touches is read as a whole.
\* A block that is only wanted in part may come back short and is filled up
\* with zeros; one that is wanted as a whole must be whole.  What lies behind
\* the end of the inner provider is zero.
CacheRead(inner, total, blockSize) ==
  [size \in Nat |-> [offset \in Nat |->
     LET block == Least(blockSize, MaxCache)
         readSize == Least(size, total - offset)
         touched == {b \in AlignDown(offset, block) .. offset + readSize - 1 : b % block = 0}
         got == [b \in touched |-> inner[block][b]]
         Served(b) ==
           IF b >= offset /\ b + block <= offset + readSize
             THEN Delivered(got[b]) = block
             ELSE got[b] # Fails
         Byte(p) ==
           LET b == AlignDown(p, block)
           IN IF p < offset + readSize /\ p - b \in DOMAIN got[b] THEN got[b][p - b] ELSE Zero
     IN IF size = 0 \/ offset >= total \/ \E b \in touched : ~ Served(b) THEN Fails
        ELSE [i \in 0 .. size - 1 |-> Byte(offset + i)]]]

\* AlignedProvider::read: a head that is cut out of one block, the whole blocks
\* in one read, and a tail that is cut out of one block.
AlignedRead(inner, total, align) ==
  [size \in Nat |-> [offset \in Nat |->
     LET aligned == AlignUp(offset, align)
         headSize == aligned - offset
         head == Least(size, headSize)
         bulk == AlignDown(size - head, align)
         tail == size - head - bulk
         Head == inner[align][aligned - align]
         Bulk == inner[bulk][aligned]
         Tail == inner[align][aligned + bulk]
         Byte(i) ==
           IF i < head THEN Head[align - headSize + i]
           ELSE IF i < head + bulk THEN Bulk[i - head]
           ELSE Tail[i - head - bulk]
     IN IF \/ size = 0 \/ offset >= total
           \/ head > 0 /\ Delivered(Head) # align
           \/ bulk > 0 /\ Delivered(Bulk) # bulk
           \/ tail > 0 /\ Delivered(Tail) # align
          THEN Fails
          ELSE [i \in 0 .. size - 1 |-> Byte(i)]]]

-----------------------------------------------------------------------------
\* The section of the NCA in the file.
SectionSize == OffsetSize(image.fileSize, image.section, image.sectionSize)
SectionRead == OffsetRead(MappedRead, SectionSize, image.section)

\* AesCtrProvider::decrypt: the byte at `offset` of the section meets the
\* keystream that enciphered it only at its own place in the file.
Decrypted(byte, offset) ==
  IF byte = Cipher(AlignDown(image.section, AesBlock) + offset) THEN Plain(offset) ELSE Junk

\* AesCtrProvider::read
AesCtrRead ==
  [size \in Nat |-> [offset \in Nat |->
     LET got == SectionRead[size][offset]
     IN IF \/ offset >= SectionSize \/ size = 0
           \/ offset % AesBlock # 0 \/ size % AesBlock # 0
           \/ got = Fails
          THEN Fails
          ELSE [i \in 0 .. size - 1 |->
                  IF i \in DOMAIN got THEN Decrypted(got[i], offset + i) ELSE Zero]]]

\* createAesCtrProvider: AlignedProvider over CacheProvider over AesCtrProvider.
CtrStackRead ==
  LET block == AlignUp(Least(SectionSize, CtrCache), AesBlock)
  IN AlignedRead(CacheRead(AesCtrRead, SectionSize, block), SectionSize, AesBlock)

\* createDecryptedProvider
DecryptedRead == IF image.encrypted THEN CtrStackRead ELSE SectionRead

-----------------------------------------------------------------------------
\* The data region below the hash layer: position 0 is image.data.
DataSize == OffsetSize(SectionSize, image.data, image.dataSize)
DataRead == OffsetRead(DecryptedRead, DataSize, image.data)

\* The hashes were made from the data region as it should be, the last block
\* as far as it goes (Sha256Provider) or filled up with zeros (ivfc).
Expected(p) == IF p < image.dataSize THEN Plain(image.data + p) ELSE Zero

Matches(bytes, offset) == \A i \in DOMAIN bytes : bytes[i] = Expected(offset + i)

Padded(bytes, size) == [i \in 0 .. size - 1 |-> IF i \in DOMAIN bytes THEN bytes[i] ELSE Zero]

\* Both hash layers take whole blocks only.
Rejected(size, offset) ==
  offset >= DataSize \/ size = 0 \/ offset % image.block # 0 \/ size % image.block # 0

\* A mutant: the inner provider is asked for more than it has.
Sha256ReadUnclamped ==
  [size \in Nat |-> [offset \in Nat |->
     LET got == DataRead[size][offset]
     IN IF Rejected(size, offset) \/ Delivered(got) # size \/ ~ Matches(got, offset) THEN Fails
        ELSE got]]

\* A mutant: a block at the end is not checked, because it is short.
Sha256ReadSkipsTail ==
  [size \in Nat |-> [offset \in Nat |->
     LET readSize == Least(DataSize - offset, size)
         got == DataRead[readSize][offset]
     IN IF \/ Rejected(size, offset) \/ Delivered(got) # readSize
           \/ readSize = size /\ ~ Matches(got, offset)
          THEN Fails
          ELSE Padded(got, size)]]

\* Sha256Provider::read
Sha256Read ==
  [size \in Nat |-> [offset \in Nat |->
     LET readSize == Least(DataSize - offset, size)
         got == DataRead[readSize][offset]
     IN IF Rejected(size, offset) \/ Delivered(got) # readSize \/ ~ Matches(got, offset) THEN Fails
        ELSE Padded(got, size)]]

\* IntegrityVerificationProvider::read, over a CacheProvider of its block size.
IvfcRead ==
  [size \in Nat |-> [offset \in Nat |->
     LET readSize == IF offset + size >= DataSize THEN DataSize - offset ELSE size
         got == CacheRead(DataRead, DataSize, image.block)[readSize][offset]
     IN IF \/ Rejected(size, offset) \/ size - readSize > image.block
           \/ Delivered(got) # readSize \/ ~ Matches(Padded(got, size), offset)
          THEN Fails
          ELSE Padded(got, size)]]

\* createSha256Provider: AlignedProvider over CacheProvider over Sha256Provider.
Sha256StackRead == AlignedRead(CacheRead(Sha256Read, DataSize, image.block), DataSize, image.block)

\* HierarchicalIntegrityVerificationProvider: CacheProvider over AlignedProvider
\* over the last IntegrityVerificationProvider.
IvfcStackRead == CacheRead(AlignedRead(IvfcRead, DataSize, image.block), DataSize, image.block)

\* createProvider
ProviderRead ==
  CASE image.hash = "none" -> DecryptedRead
    [] image.hash = "sha256" -> Sha256StackRead
    [] image.hash = "ivfc" -> IvfcStackRead

ProviderSize == IF image.hash = "none" THEN SectionSize ELSE DataSize
ProviderBase == IF image.hash = "none" THEN 0 ELSE image.data

\* A mutant: the request is passed on as it is.
FileReadUnclamped(r) ==
  IF r.offset >= r.length THEN Fails ELSE ProviderRead[r.size][r.start + r.offset]

\* File::read: the request is cut off at the end of the file's entry, which is
\* [start, start + length) of the provider.
FileRead(r) ==
  LET size == Clamp(r.size, r.offset, r.length)
  IN IF size = 0 THEN Fails ELSE ProviderRead[size][r.start + r.offset]

-----------------------------------------------------------------------------
\* Any entry, one that is wrong about the end of the image included.
Requests ==
  {r \in [start : 0 .. ProviderSize, length : 1 .. ProviderSize, offset : 0 .. MaxOffset, size : 1 .. MaxSize] :
     r.start + r.length <= ProviderSize + MaxOverrun}

Init ==
  /\ image \in Images
  /\ request = [start |-> 0, length |-> 0, offset |-> 0, size |-> 0]
  /\ answer = Fails

\* A file of the mounted image is read.
ReadFile ==
  /\ request.size = 0
  /\ \E r \in Requests : request' = r /\ answer' = FileRead(r)
  /\ UNCHANGED image

\* The caller has its answer.
Done ==
  /\ request.size # 0
  /\ request' = [start |-> 0, length |-> 0, offset |-> 0, size |-> 0]
  /\ answer' = Fails
  /\ UNCHANGED image

Next == ReadFile \/ Done

Spec == Init /\ [][Next]_vars

-----------------------------------------------------------------------------
\* The types: no more is delivered than was asked for, and nothing from behind
\* the end of the file's entry.
TypeOK ==
  /\ image \in Images
  /\ Delivered(answer) <= Clamp(request.size, request.offset, request.length)
  /\ DOMAIN answer = 0 .. Delivered(answer) - 1

\* What belongs at position p of the provider that a file reads from.
Genuine(p) == IF p < ProviderSize THEN Plain(ProviderBase + p) ELSE Zero

\* However a request is rounded, split and padded on its way down, a byte that
\* is delivered is the one of its position, or zero behind the end: never one
\* that was not written, was deciphered at a wrong place, or was altered in an
\* image with hashes.
DeliversGenuine ==
  image.hash # "none" \/ image.corrupt = {} =>
    \A i \in DOMAIN answer :
      answer[i] = Genuine(request.start + request.offset + i)

\* The positions of the hash blocks that hold a part of what is wanted.
Wanted(r) ==
  LET first == r.start + r.offset
      last == first + Clamp(r.size, r.offset, r.length) - 1
  IN AlignDown(first, image.block) .. Least(AlignDown(last, image.block) + image.block, ProviderSize) - 1

Intact(r) ==
  /\ image.section + image.sectionSize <= image.fileSize
  /\ image.hash # "none" =>
       image.data + image.dataSize <= image.sectionSize /\ image.block <= MaxCache
  /\ r.start + r.length <= ProviderSize
  /\ \A p \in Wanted(r) : image.section + ProviderBase + p \notin image.corrupt

\* A read of an intact part of a file delivers all of it, at any offset and of
\* any size, whatever is wrong elsewhere: no layer turns a rounded request into
\* one that the layer below rejects.
DeliversAllItCan ==
  Intact(request) => Delivered(answer) = Clamp(request.size, request.offset, request.length)
=============================================================================
