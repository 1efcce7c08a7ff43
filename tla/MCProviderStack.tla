---------------------------- MODULE MCProviderStack ----------------------------
(* Small images: AES blocks of 2 bytes, hash blocks of 3 or 4, a section of  *)
(* 10 bytes whose data region starts and ends inside of blocks.              *)
EXTENDS ProviderStack

Image(size, corrupt, encrypted, hash, block) ==
  [fileSize |-> size, corrupt |-> corrupt, section |-> 2, sectionSize |-> 10,
   encrypted |-> encrypted, hash |-> hash, block |-> block, data |-> 1, dataSize |-> 7]

\* Whole and altered images, and files that end inside of the section.  The
\* constructor of Sha256Provider refuses an image that is cut off in its data.
MCImages ==
  {Image(size, corrupt, encrypted, hash, block) :
     size \in {9, 10, 13}, corrupt \in {{}, {4}}, encrypted \in BOOLEAN, hash \in {"none", "ivfc"}, block \in {4}}
  \cup {Image(13, corrupt, TRUE, "sha256", block) : corrupt \in {{}, {4}, {9}}, block \in {3, 4}}
=============================================================================
