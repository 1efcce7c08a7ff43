------------------------------- MODULE MCRomFs -------------------------------
(* Tables written from small trees as romfs tools write them: siblings in     *)
(* order, new entries at the head of their bucket's chain, the root first.    *)
EXTENDS RomFs, SequencesExt

Hash(parent, name) == 3 * parent + FoldSeq(LAMBDA c, h : 5 * h + c, 0, name)

Least(S) == IF S = {} THEN End ELSE CHOOSE x \in S : \A y \in S : x <= y
Greatest(S) == IF S = {} THEN End ELSE CHOOSE x \in S : \A y \in S : x >= y

\* d and f: functions from positions to <<parent, name>>.
Bucket(e, n) == Hash(e[1], e[2]) % n
Chain(t, n, p) == Greatest({q \in DOMAIN t : q < p /\ Bucket(t[q], n) = Bucket(t[p], n)})
Sibling(t, p) == Least({q \in DOMAIN t : q > p /\ t[q][1] = t[p][1]})
Buckets(t, n) == [b \in 1 .. n |-> Greatest({q \in DOMAIN t : Bucket(t[q], n) = b - 1})]

Build(d, f, dirBuckets, fileBuckets) ==
  [dirs |-> [p \in DOMAIN d |->
     [parent |-> d[p][1], name |-> d[p][2], chain |-> Chain(d, dirBuckets, p),
      sibling |-> IF p = 0 THEN End ELSE Sibling(d, p),
      dir |-> Least({q \in DOMAIN d \ {0} : d[q][1] = p}),
      file |-> Least({q \in DOMAIN f : f[q][1] = p})]],
   files |-> [p \in DOMAIN f |->
     [parent |-> f[p][1], name |-> f[p][2], chain |-> Chain(f, fileBuckets, p),
      sibling |-> Sibling(f, p)]],
   dirBuckets |-> Buckets(d, dirBuckets),
   fileBuckets |-> Buckets(f, fileBuckets)]

Numbered(s) == [i \in 0 .. Len(s) - 1 |-> s[i + 1]]

a == <<1>>
b == <<2>>
c == <<3>>
ab == <<1, 2>>
abc == <<1, 2, 3>>

\* Root alone; root with files; directories with the same names below; three deep.
Trees == {
  << <<<<0, <<>>>>>>, <<>> >>,
  << <<<<0, <<>>>>>>, <<<<0, a>>, <<0, b>>, <<0, ab>>>> >>,
  << <<<<0, <<>>>>, <<0, a>>, <<0, b>>, <<0, ab>>>>, <<>> >>,
  << <<<<0, <<>>>>, <<0, a>>, <<0, b>>, <<1, a>>, <<1, b>>>>,
     <<<<0, c>>, <<0, ab>>, <<1, c>>, <<3, a>>>> >>,
  << <<<<0, <<>>>>, <<0, c>>, <<1, c>>>>, <<<<2, a>>, <<2, b>>, <<1, a>>, <<0, a>>>> >>}

Written ==
  {Build(Numbered(t[1]), Numbered(t[2]), n, m) : t \in Trees, n \in 1 .. 3, m \in 1 .. 2}

Without(table, positions) == [p \in DOMAIN table \ positions |-> table[p]]

\* An entry whose chain leads to itself, a circle of two, a list of siblings that
\* never ends, tables that end too early, the root ahead of others in its chain,
\* a list that goes on with the entries of another directory, a name that is too long
\* to be listed, and no directories at all.
Damaged ==
  LET m == Build(Numbered(<<<<0, <<>>>>, <<0, a>>, <<0, b>>, <<1, a>>>>),
                 Numbered(<<<<0, c>>, <<0, ab>>, <<1, c>>>>), 1, 1)
  IN {[m EXCEPT !.dirs[2].chain = 2],
      [m EXCEPT !.files[1].chain = 1],
      [m EXCEPT !.dirs[1].chain = 2],
      [m EXCEPT !.dirs[2].sibling = 1],
      [m EXCEPT !.files[1].sibling = 0],
      [m EXCEPT !.dirs = Without(@, {2, 3})],
      [m EXCEPT !.files = Without(@, {1})],
      [m EXCEPT !.dirs = Without(@, DOMAIN @)],
      [m EXCEPT !.dirs[0].chain = 3, !.dirs[1].chain = End, !.dirBuckets = <<0>>],
      [Build(Numbered(<<<<0, <<>>>>, <<0, a>>, <<1, b>>>>), Numbered(<<<<0, c>>>>), 1, 1)
         EXCEPT !.dirs[1].sibling = 2],
      Build(Numbered(<<<<0, <<>>>>>>), Numbered(<<<<0, b>>, <<0, abc>>, <<0, c>>>>), 1, 1)}

MCImages == Written \cup Damaged
=============================================================================
