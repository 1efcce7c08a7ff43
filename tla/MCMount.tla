------------------------------- MODULE MCMount -------------------------------
(* A title with a program, a manual and a control content, patches of it in  *)
(* both orders of their contents, add-ons, and packages that hold several,    *)
(* that share a content, that lack a file or whose tickets are not in order. *)
EXTENDS Mount, SequencesExt

Nca(id, type, rights, plain, patched) ==
  [kind |-> "nca", id |-> id, type |-> type, rights |-> rights, plain |-> plain,
   patched |-> patched, meta |-> NoMeta]

MetaNca(id, meta) ==
  [Nca(id, "Meta", NoRights, {0}, {}) EXCEPT !.meta = meta]

Ticket(rights, form, key) ==
  [kind |-> "tik", id |-> "t", rights |-> rights, form |-> form, key |-> key]

Content(type, id) == [type |-> type, id |-> id]

Meta(kind, id, version, application, required, contents) ==
  [kind |-> kind, id |-> id, version |-> version, application |-> application,
   required |-> required, contents |-> contents]

AppMeta == MetaNca("am", Meta("Application", "A", 0, "A", 0,
  <<Content("Program", "ap"), Content("HtmlDocument", "ah"), Content("Control", "ac")>>))
App == <<Nca("ap", "Program", "r", {0, 1}, {}), Nca("ah", "Manual", "r", {0}, {}),
         Nca("ac", "Control", NoRights, {0}, {})>>

PatchOf(id, version, contents) == MetaNca(id, Meta("Patch", "Au", version, "A", 0, contents))
Patch(p, h) == <<Nca(p, "Program", "r", {0}, {1}), Nca(h, "Manual", "r", {}, {0})>>
PatchV1 == PatchOf("pm", 1, <<Content("Program", "pp"), Content("HtmlDocument", "ph")>>)
PatchV2 == PatchOf("qm", 2, <<Content("HtmlDocument", "qh"), Content("Control", "qc"),
                              Content("Program", "qp")>>)

AddOn(id, required, contents) ==
  MetaNca(id, Meta("AddOnContent", id, 0, "A", required, contents))
Data(id) == Nca(id, "PublicData", NoRights, {0}, {})

Good == Ticket("r", "common", "right")
Bad == Ticket("r", "bad", "right")
Nsp(files) == [form |-> "nsp", files |-> files]
Xci(files) == [form |-> "xci", files |-> files]
Stray == <<[kind |-> "file", id |-> "x"], Nca("s", "Program", NoRights, {0}, {})>>

MCBases == {
  Nsp(<<AppMeta>> \o App \o <<Good>>),
  Nsp(<<Good>> \o App \o Stray \o <<AppMeta>>),
  Nsp(App \o <<AppMeta, PatchV1>> \o Patch("pp", "ph") \o <<Good>>),
  Nsp(Stray \o <<Bad, Good>>),
  Xci(<<AppMeta>> \o App)}

MCUpdates == {
  Nsp(<<PatchV1>> \o Patch("pp", "ph") \o <<Good>>),
  Nsp(<<Ticket("r", "personal", "wrong")>> \o Patch("qp", "qh") \o <<PatchV2, Good>>),
  Nsp(<<PatchV1>> \o <<Patch("pp", "ph")[2]>>),
  Nsp(<<AppMeta>> \o App \o <<PatchV2>> \o Patch("qp", "qh") \o <<Good, Bad, Good>>),
  Nsp(<<Bad, PatchV1>> \o Patch("pp", "ph") \o <<Good>>),
  Xci(<<PatchV1>> \o Patch("pp", "ph"))}

MCAddOns == {
  Nsp(<<AddOn("d", 0, <<Content("Data", "dd"), Content("Data", "de")>>), Data("dd"), Data("de")>>),
  Nsp(<<Data("dd"), AddOn("d", 1, <<Content("Data", "dd")>>),
        AddOn("e", 0, <<Content("Data", "dd"), Content("Data", "df")>>)>>)}

MCKeyFiles == {[r \in {"r"} |-> key] : key \in {"right", "wrong", "none"}}
MCExternals == {NoRights, "r"}

\* The hypothesis of the theorem MountPatchIsWhole is met here.
ASSUME MCPatches == NoPatchOfPatch
=============================================================================
