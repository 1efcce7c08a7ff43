---------------------------- MODULE MCRomFileTable ----------------------------
(* Three paths over a cache of two nodes: "/a" and "/a/" lead to the same    *)
(* entry, "" is the key of a fresh node and exists nowhere.                  *)
EXTENDS RomFileTable

MCKeys == {"", "/a", "/a/", "/b"}
MCPosition == [k \in MCKeys |-> CASE k = "" -> NoPos [] k = "/b" -> 8 [] OTHER -> 4]
MCEntryAt == [p \in {0, 4, 8} |-> <<"entry", p>>]
=============================================================================
