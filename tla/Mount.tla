-------------------------------- MODULE Mount --------------------------------
(***************************************************************************)
(* From images to one tree: driver::Setup opens the base, then updates,    *)
(* then add-ons, initializes each file system and applies it to the base;  *)
(* FUSE initializes the base once more when it is mounted.  Ownership is   *)
(* the point: NCAs move from entry to entry, and read through the package  *)
(* they were opened in, which must live as long as they do.                *)
(*                                                                         *)
(* A package is a partition of files (of a game card, its secure           *)
(* partition).  A file is                                                  *)
(*   [kind |-> "nca", id, type, rights, plain, patched, meta], where plain *)
(*      and patched are sections that stand alone and that need a base;    *)
(*   [kind |-> "tik", id, form, rights, key], a ticket;                    *)
(*   [kind |-> "file", id].                                                *)
(* A meta is [kind, id, version, application, required, contents].         *)
(* An NCA is named by its load and its index there.                        *)
(***************************************************************************)
EXTENDS Integers, Sequences, FiniteSets, FiniteSetsExt, Functions

CONSTANTS
  Bases, Updates, AddOns,   \* packages: [form |-> "nsp" or "xci", files |-> sequence]
  KeyFiles,                 \* title.keys: [rights -> "right", "wrong" or "none"]
  Externals,                \* --titlekey: the rights that its key is for, or NoRights
  MaxLoads                  \* bound of the model: packages opened

NoRights == "none"
NoMeta == [kind |-> "none"]
NoNca == <<0, 0>>
Packages == Bases \cup Updates \cup AddOns
Patchable == {"Program", "Data", "HtmlDocument"}

\* What an NCA can be (ContentType of nca.hpp), and what is known of a key.
ContentTypes == {"Program", "Meta", "Control", "Manual", "Data", "PublicData"}
KeyStates == {"right", "wrong", "none"}

IsFile(f) ==
  /\ f.kind \in {"nca", "tik", "file"}
  /\ f.kind = "tik" => f.key \in KeyStates
  /\ f.kind = "nca" => f.type \in ContentTypes
  /\ f.kind = "nca" /\ f.meta # NoMeta =>
       f.type = "Meta" /\ f.meta.contents \in Seq(Range(f.meta.contents))

IsMetaFile(f) == f.kind = "nca" /\ f.meta # NoMeta

\* The rights that some file wants or has a key for; of one that title.keys does not
\* name it has none.
Rights ==
  {f.rights : f \in {g \in UNION {Range(p.files) : p \in Packages} : g.kind \in {"nca", "tik"}}}
    \ {NoRights}

\* findContentInfo takes no notice of the programs of a title: a patch
\* that holds several contents of a type is not modelled.  No meta names a meta.
ASSUME MountAssumption ==
  /\ MaxLoads \in Nat \ {0}
  /\ \A keys \in KeyFiles : keys \in [DOMAIN keys -> KeyStates] /\ Rights \subseteq DOMAIN keys
  /\ \A p \in Packages :
       /\ p.files \in Seq(Range(p.files))
       /\ \A f \in Range(p.files) : IsFile(f)
       /\ \A f \in {g \in Range(p.files) : IsMetaFile(g)} :
            /\ \A c \in Range(f.meta.contents), g \in Range(p.files) :
                 IsMetaFile(g) => c.id # g.id
            /\ f.meta.kind = "Patch" =>
                 \A a, b \in DOMAIN f.meta.contents :
                   f.meta.contents[a].type = f.meta.contents[b].type => a = b

VARIABLES
  loads,      \* the packages opened, the base first
  entries,    \* mEntries of those that are alive
  ncas,       \* [nca -> its sections that can be used, and the base it was given]
  titleKeys, external,
  purpose,    \* what the last package was opened for
  phase       \* "opened", "initialized", "applied", "mounted", "destroyed" or "terminated"

vars == <<loads, entries, ncas, titleKeys, external, purpose, phase>>

\* The packages that are not destroyed.
Alive == DOMAIN entries

-----------------------------------------------------------------------------
Cleared == <<>>
NoFs == [kind |-> "none"]
NcaFs(n) == [kind |-> "nca", nca |-> n]
WrapperFs(slots) == [kind |-> "wrapper", slots |-> slots]
PartitionFs(k) == [kind |-> "partition", load |-> k]

FileOf(n) == loads[n[1]].files[n[2]]

\* The entries as the constructor reads them.
Constructed(package) ==
  [i \in DOMAIN package.files |->
     [name |-> <<package.files[i].kind, package.files[i].id>>, fs |-> NoFs]]

\* What is left of an entry whose name was cleared and whose file system was moved.
Gone == [name |-> Cleared, fs |-> NoFs]
Without(es, at) == [i \in DOMAIN es |-> IF i = at THEN Gone ELSE es[i]]

\* A mutant: a key that is there is not replaced.
AddTitleKeyOnce(keys, ticket) ==
  IF ticket.form = "common" /\ keys[ticket.rights] = "none"
  THEN [keys EXCEPT ![ticket.rights] = ticket.key] ELSE keys

\* addTitleKey; a personalized ticket is passed over with a warning.
AddTitleKey(keys, ticket) ==
  IF ticket.form = "common" THEN [keys EXCEPT ![ticket.rights] = ticket.key] ELSE keys

\* One entry of tryParseTicket.
ParseEntry(s, k, e) ==
  LET file == loads[k].files[s.index]
      isTicket == e.name # Cleared /\ e.name[1] = "tik"
  IN IF ~ isTicket THEN [s EXCEPT !.index = @ + 1]
     ELSE IF file.kind = "tik" /\ file.form # "bad"
          THEN [index |-> s.index + 1, keys |-> AddTitleKey(s.keys, file)]
     ELSE s

\* tryParseTicket.  The index of the file that is read goes along with the
\* entries, but is left behind by every ticket that is given up.
ParseTickets(k) ==
  LET es == entries[k]
      scan[j \in 0 .. Len(es)] ==
        IF j = 0 THEN [index |-> 1, keys |-> titleKeys] ELSE ParseEntry(scan[j - 1], k, es[j])
  IN scan[Len(es)].keys

IsNca(e) == e.name # Cleared /\ e.name[1] = "nca"

\* The NCAs that processEntry constructs.
New(k) == {i \in DOMAIN entries[k] : IsNca(entries[k][i]) /\ entries[k][i].fs = NoFs}

\* The key that the constructor of an NCA finds is its own.
KeyFits(n, keys) ==
  \/ FileOf(n).rights = NoRights
  \/ IF external # NoRights THEN FileOf(n).rights = external
     ELSE keys[FileOf(n).rights] = "right"

\* processEntry of all entries.
Processed(k) ==
  [i \in DOMAIN entries[k] |->
     IF i \in New(k) THEN [entries[k][i] EXCEPT !.fs = NcaFs(<<k, i>>)] ELSE entries[k][i]]

\* initializeFileSystems without a base: the sections that stand alone.
WithNew(k, keys) ==
  LET new == {<<k, i>> : i \in New(k)}
  IN [n \in DOMAIN ncas \cup new |->
        IF n \in new
        THEN [sections |-> FileOf(n).plain, base |-> NoNca, keyed |-> KeyFits(n, keys)]
        ELSE ncas[n]]

\* With another key than its own, what is put onto a section finds nothing that
\* it knows, and throws.
Throws(ns) ==
  \E n \in DOMAIN ns : ~ ns[n].keyed /\ (FileOf(n).plain # {} \/ ns[n].base # NoNca)

-----------------------------------------------------------------------------
\* The first of some indices, or 0.
First(indices) == IF indices = {} THEN 0 ELSE Min(indices)

\* The index of the first entry with a name, or 0.
GetEntry(es, name) == First({i \in DOMAIN es : es[i].name = name})

\* A mutant: the second content of a type replaces the first.
SlotByType(slots, type, at) == <<type>>

\* The name of a content in the directory of its title.
Slot(slots, type, at) ==
  IF \E s \in slots : s.name = <<type>> THEN <<type, at>> ELSE <<type>>

\* addFileSystem, which leaves a name alone that is there.
Added(slots, name, n) ==
  IF \E s \in slots : s.name = name THEN slots ELSE slots \cup {[name |-> name, nca |-> n]}

\* One content of a title moves to its slot, if it is there.
Moved(s, info) ==
  LET at == GetEntry(s.es, <<"nca", info.id>>)
  IN IF at = 0 THEN s
     ELSE [es |-> Without(s.es, at),
           slots |-> Added(s.slots, Slot(s.slots, info.type, at), s.es[at].fs.nca)]

\* A title of its own: the meta at i and the contents that it names.
Wrap(es, i) ==
  LET meta == FileOf(es[i].fs.nca).meta
      moved[j \in 0 .. Len(meta.contents)] ==
        IF j = 0 THEN [es |-> Without(es, i),
                       slots |-> {[name |-> <<"Meta">>, nca |-> es[i].fs.nca]}]
        ELSE Moved(moved[j - 1], meta.contents[j])
      all == moved[Len(meta.contents)]
  IN Append(all.es, [name |-> <<"title", meta.id, meta.version>>, fs |-> WrapperFs(all.slots)])

\* A mutant: what belongs to no title keeps the name of its file.
RenamedNot(e) == e

\* A mutant: any NCA is renamed, whatever its name.
RenamedAgain(e) ==
  IF e.fs.kind = "nca" THEN [e EXCEPT !.name = <<FileOf(e.fs.nca).type>> \o @] ELSE e

\* What belongs to no title is named by its type.
Renamed(e) ==
  IF IsNca(e) THEN [e EXCEPT !.name = <<FileOf(e.fs.nca).type, e.name[2]>>] ELSE e

IsMeta(e) == IsNca(e) /\ FileOf(e.fs.nca).meta # NoMeta

\* rearrangeNCAs.  The metas are looked for before anything moves.
Rearranged(es) ==
  LET wrapped[i \in 0 .. Len(es)] ==
        IF i = 0 THEN es
        ELSE IF IsMeta(es[i]) THEN Wrap(wrapped[i - 1], i) ELSE wrapped[i - 1]
      all == wrapped[Len(es)]
  IN [i \in DOMAIN all |-> Renamed(all[i])]

-----------------------------------------------------------------------------
\* The meta that "Meta/0" of an entry holds.
MetaOf(e) ==
  IF e.name # Cleared /\ e.fs.kind = "wrapper"
  THEN FileOf((CHOOSE s \in e.fs.slots : s.name = <<"Meta">>).nca).meta
  ELSE NoMeta

HasMeta(e) == MetaOf(e) # NoMeta

\* getContentMetaReader: the first entry with the meta of a title, or 0.
TitleEntry(es, id) == First({i \in DOMAIN es : HasMeta(es[i]) /\ MetaOf(es[i]).id = id})

\* The NCA with a content id in the directory of a title.
NcaOf(e, id) ==
  LET found == {s.nca : s \in {t \in e.fs.slots : FileOf(t.nca).id = id}}
  IN IF found = {} THEN NoNca ELSE CHOOSE n \in found : TRUE

\* A content of a patch and its counterpart in the base: the NCAs, where they are.
Pair(patch, base, info) ==
  LET contents == MetaOf(base).contents
      at == First({i \in DOMAIN contents : contents[i].type = info.type})
  IN [update |-> NcaOf(patch, info.id),
      base |-> IF at = 0 THEN NoNca ELSE NcaOf(base, contents[at].id)]

\* The contents of a patch that are there, and have a counterpart that is there.
Paired(patch, base) ==
  LET contents == MetaOf(patch).contents
      IsWhole(pair) == pair.update # NoNca /\ pair.base # NoNca
  IN {j \in DOMAIN contents :
        contents[j].type \in Patchable /\ IsWhole(Pair(patch, base, contents[j]))}

\* setBase: the sections that are missing and whose counterpart the base has.
SetBase(ns, pair) ==
  LET found == (FileOf(pair.update).patched \ ns[pair.update].sections)
               \cap ns[pair.base].sections
  IN IF found = {} THEN ns
     ELSE [ns EXCEPT ![pair.update].sections = @ \cup found, ![pair.update].base = pair.base]

\* A content of a patch is given its base.
Tie(ns, patch, base, j) == SetBase(ns, Pair(patch, base, MetaOf(patch).contents[j]))

\* A mutant: the first content of a patch only.
TiedFirst(ns, patch, base) == Tie(ns, patch, base, First(Paired(patch, base)))

\* All contents of a patch are, in the order of its meta.
Tied(ns, patch, base) ==
  LET n == Len(MetaOf(patch).contents)
      tied[j \in 0 .. n] ==
        IF j = 0 THEN ns
        ELSE IF j \in Paired(patch, base) THEN Tie(tied[j - 1], patch, base, j) ELSE tied[j - 1]
  IN tied[n]

\* One entry of tryApplyUpdate: a patch is given the base that is in s.es.  If the
\* two partitions are one, all of its contents are; if not, the first content
\* is, and the patch moves over.
TryPatch(s, i, patch, self) ==
  LET at == IF MetaOf(patch).kind = "Patch" THEN TitleEntry(s.es, MetaOf(patch).application) ELSE 0
      paired == IF at = 0 THEN {} ELSE Paired(patch, s.es[at])
  IN IF paired = {} THEN s
     ELSE IF self THEN [s EXCEPT !.ncas = Tied(@, patch, s.es[at])]
     ELSE [es |-> Append(s.es, patch), us |-> Without(s.us, i),
           ncas |-> Tie(s.ncas, patch, s.es[at], First(paired)), applied |-> TRUE]

\* tryApplyUpdate: each patch in `us` whose title is in `es`.
TryApplyUpdate(es, us, self, known) ==
  LET try[i \in 0 .. Len(us)] ==
        IF i = 0 THEN [es |-> es, us |-> us, ncas |-> known, applied |-> FALSE]
        ELSE TryPatch(try[i - 1], i, us[i], self)
  IN try[Len(us)]

\* One entry of tryApplyAddOnContent: an add-on moves over if any title there, of
\* whatever application, has the version that it requires.
TryAddOn(s, i, addOn) ==
  LET meta == MetaOf(addOn)
      applicable == \E j \in DOMAIN s.es :
        HasMeta(s.es[j]) /\ MetaOf(s.es[j]).version >= meta.required
  IN IF meta.kind = "AddOnContent" /\ applicable
     THEN [es |-> Append(s.es, addOn), us |-> Without(s.us, i), applied |-> TRUE]
     ELSE s

\* tryApplyAddOnContent.
TryApplyAddOn(es, us) ==
  LET try[i \in 0 .. Len(us)] ==
        IF i = 0 THEN [es |-> es, us |-> us, applied |-> FALSE] ELSE TryAddOn(try[i - 1], i, us[i])
  IN try[Len(us)]

\* A mutant: the package is let go.
KeptNot(es, us, k, applied) ==
  [j \in Alive \ {k} |-> IF j = 1 THEN es ELSE entries[j]]

\* applyUpdate and applyAddOnContent: the base takes a package that something was
\* taken from, under no name; any other goes out of scope.
Kept(es, us, k, applied) ==
  [j \in IF applied THEN Alive ELSE Alive \ {k} |->
     IF j = 1 THEN (IF applied THEN Append(es, [name |-> Cleared, fs |-> PartitionFs(k)]) ELSE es)
     ELSE IF j = k THEN us ELSE entries[j]]

\* PartitionFileSystemBase::init.  Setup calls it, and FUSE too, outside of every
\* try block: what an NCA throws ends the process.
InitFileSystem(k, next) ==
  LET keys == ParseTickets(k)
      es == Rearranged(Processed(k))
      s == TryApplyUpdate(es, es, TRUE, WithNew(k, keys))
  IN /\ titleKeys' = keys
     /\ IF Throws(s.ncas)
        THEN phase' = "terminated" /\ UNCHANGED <<entries, ncas>>
        ELSE phase' = next /\ entries' = [entries EXCEPT ![k] = s.es] /\ ncas' = s.ncas

-----------------------------------------------------------------------------
\* OpenFS for an update or an add-on.  Updates come before add-ons.
Open(package, use) ==
  /\ phase = "applied"
  /\ Len(loads) < MaxLoads
  /\ use = "update" => purpose # "add-on"
  /\ loads' = Append(loads, package)
  /\ entries' =
       [k \in Alive \cup {Len(loads) + 1} |->
          IF k \in Alive THEN entries[k] ELSE Constructed(package)]
  /\ purpose' = use
  /\ phase' = "opened"
  /\ UNCHANGED <<ncas, titleKeys, external>>

Initialize ==
  /\ phase = "opened"
  /\ InitFileSystem(Len(loads), IF purpose = "base" THEN "applied" ELSE "initialized")
  /\ UNCHANGED <<loads, external, purpose>>

\* ApplyUpdate of the driver: a game card is not accepted as an update.
ApplyUpdate ==
  LET k == Len(loads)
      s == TryApplyUpdate(entries[1], entries[k], FALSE, ncas)
      ok == loads[k].form = "nsp" /\ s.applied
  IN /\ phase = "initialized" /\ purpose = "update"
     /\ entries' = IF ok THEN Kept(s.es, s.us, k, TRUE)
                   ELSE Kept(entries[1], entries[k], k, FALSE)
     /\ ncas' = IF ok THEN s.ncas ELSE ncas
     /\ phase' = IF ok /\ Throws(s.ncas) THEN "terminated" ELSE "applied"
     /\ UNCHANGED <<loads, titleKeys, external, purpose>>

\* ApplyDLC of the driver.
ApplyAddOn ==
  LET k == Len(loads)
      s == TryApplyAddOn(entries[1], entries[k])
      ok == loads[k].form = "nsp" /\ s.applied
  IN /\ phase = "initialized" /\ purpose = "add-on"
     /\ entries' = IF ok THEN Kept(s.es, s.us, k, TRUE)
                   ELSE Kept(entries[1], entries[k], k, FALSE)
     /\ phase' = "applied"
     /\ UNCHANGED <<loads, ncas, titleKeys, external, purpose>>

\* Init of the FUSE front end, of a partition: everything once more.
MountPartition ==
  /\ phase = "applied" /\ loads[1].form = "nsp"
  /\ InitFileSystem(1, "mounted")
  /\ UNCHANGED <<loads, external, purpose>>

\* The same of a game card: processEntry of its root leaves a partition alone
\* that has a file system already.
MountCard ==
  /\ phase = "applied" /\ loads[1].form = "xci"
  /\ phase' = "mounted"
  /\ UNCHANGED <<loads, entries, ncas, titleKeys, external, purpose>>

\* Destroy of the FUSE front end.
Destroy ==
  /\ phase = "mounted"
  /\ phase' = "destroyed"
  /\ entries' = <<>>
  /\ UNCHANGED <<loads, ncas, titleKeys, external, purpose>>

Init ==
  /\ \E base \in Bases : loads = <<base>> /\ entries = <<Constructed(base)>>
  /\ ncas = <<>>
  /\ titleKeys \in KeyFiles
  /\ external \in Externals
  /\ purpose = "base"
  /\ phase = "opened"

Next ==
  \/ \E p \in Updates : Open(p, "update")
  \/ \E p \in AddOns : Open(p, "add-on")
  \/ Initialize \/ ApplyUpdate \/ ApplyAddOn
  \/ MountPartition \/ MountCard \/ Destroy

Spec == Init /\ [][Next]_vars

-----------------------------------------------------------------------------
Settled == phase \in {"initialized", "applied", "mounted"}

\* The NCAs that an entry holds, with their names below it.
Held(e) ==
  CASE e.fs.kind = "nca" -> {[name |-> Cleared, nca |-> e.fs.nca]}
    [] e.fs.kind = "wrapper" -> e.fs.slots
    [] OTHER -> {}

\* Where an NCA can be found.
Places(n) ==
  UNION {UNION {{<<k, i, s>> : s \in {t \in Held(entries[k][i]) : t.nca = n}}
                  : i \in DOMAIN entries[k]} : k \in Alive}

\* The packages that the base reads from: itself and those that it took.
Owned == {1} \cup {e.fs.load : e \in {f \in Range(entries[1]) : f.fs.kind = "partition"}}

\* The types; and once a package is initialized none of its entries goes by the
\* name of an NCA's file, which init() would take for a new one.
TypeOK ==
  /\ loads \in Seq(Packages) /\ Len(loads) <= MaxLoads
  /\ \A n \in DOMAIN ncas :
       /\ n[2] \in DOMAIN loads[n[1]].files
       /\ ncas[n].sections \subseteq FileOf(n).plain \cup FileOf(n).patched
       /\ ncas[n].base \in DOMAIN ncas \cup {NoNca}
       /\ ncas[n].keyed \in BOOLEAN
  /\ \A r \in DOMAIN titleKeys : titleKeys[r] \in KeyStates
  /\ purpose \in {"base", "update", "add-on"}
  /\ phase \in {"opened", "initialized", "applied", "mounted", "destroyed", "terminated"}
  /\ Settled => \A k \in Alive : \A i \in DOMAIN entries[k] : ~ IsNca(entries[k][i])

\* Every NCA of every package that is alive is in one place, however often
\* metas name it and whatever was applied: none is lost, none is made twice.
ContentOnce ==
  Settled => \A k \in Alive : \A i \in DOMAIN loads[k].files :
    loads[k].files[i].kind = "nca" => Cardinality(Places(<<k, i>>)) = 1

\* Whatever the tree holds reads from packages that it owns: the NCAs themselves,
\* and the bases that patches were given.
NothingDangles ==
  phase \in {"applied", "mounted"} =>
    /\ Alive = Owned
    /\ \A e \in Range(entries[1]) : \A s \in Held(e) :
         s.nca[1] \in Owned /\ ncas[s.nca].base[1] \in Owned \cup {0}

\* A patch in the tree whose title is there has every section that its title's
\* sections allow for.
WholePatches ==
  \A patch \in Range(entries[1]) :
    MetaOf(patch).kind = "Patch" =>
      LET at == TitleEntry(entries[1], MetaOf(patch).application) IN
      at # 0 => \A j \in Paired(patch, entries[1][at]) :
        LET p == Pair(patch, entries[1][at], MetaOf(patch).contents[j]) IN
        FileOf(p.update).patched \cap ncas[p.base].sections \subseteq ncas[p.update].sections

\* All contents of a patch are patched when a partition is mounted, though
\* tryApplyUpdate leaves after the first one: FUSE's init() makes up for it.
PatchIsWhole == phase = "mounted" /\ loads[1].form = "nsp" => WholePatches

\* No patch of these packages is for what is a patch itself.
NoPatchOfPatch ==
  \A f, g \in UNION {Range(p.files) : p \in Packages} :
    (IsMetaFile(f) /\ f.meta.kind = "Patch") /\ (IsMetaFile(g) /\ g.meta.kind = "Patch") =>
      f.meta.application # g.meta.id

\* The same of every base, as the help text has it.
UpdateApplies == phase = "mounted" => WholePatches

\* What FUSE's init() finds was arranged by Setup's: it renames and moves nothing,
\* builds nothing anew and takes no section away.
InitAgainKeepsTree ==
  [][phase' = "mounted" =>
       /\ entries'[1] = entries[1]
       /\ DOMAIN ncas' = DOMAIN ncas
       /\ \A n \in DOMAIN ncas : ncas[n].sections \subseteq ncas'[n].sections]_vars

TicketsFor(k, rights) ==
  {f \in Range(loads[k].files) : f.kind = "tik" /\ f.rights = rights /\ f.form = "common"}

\* A package has a sound ticket that is read before a ticket is given up: behind that
\* one, tickets are read at the place of others.
ReadsTicket(k, rights) ==
  \E p \in DOMAIN loads[k].files :
    /\ loads[k].files[p] \in TicketsFor(k, rights)
    /\ \A q \in 1 .. p - 1 : loads[k].files[q].kind = "tik" => loads[k].files[q].form # "bad"

\* The key of a package's NCAs is at hand: it was given, or the package has sound
\* tickets with it, one of which is read, or no package has a ticket and the key file
\* has it.
KeyAtHand(k, rights) ==
  IF external # NoRights THEN rights = external
  ELSE \/ /\ ReadsTicket(k, rights)
          /\ \A f \in TicketsFor(k, rights) : f.key = "right"
       \/ /\ \A l \in DOMAIN loads : TicketsFor(l, rights) = {}
          /\ titleKeys[rights] = "right"

\* Over packages whose NCAs are sound, the process comes to a bad end only if keys are
\* not at hand: a ticket in the package outdoes what a key file or an earlier package
\* said, and a ticket that is given up does no harm to those before it.
MountsWithKeys ==
  phase = "terminated" =>
    \E k \in DOMAIN loads : \E f \in Range(loads[k].files) :
      f.kind = "nca" /\ f.rights # NoRights /\ ~ KeyAtHand(k, f.rights)
=============================================================================
