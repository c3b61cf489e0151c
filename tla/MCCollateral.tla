-------------------------- MODULE MCCollateral --------------------------
(***************************************************************************)
(* Two products, two paths; the content at a place tells its level, so a  *)
(* lookup that answers with the wrong level shows.                        *)
(***************************************************************************)
EXTENDS Collateral, TLC

CONSTANTS all, xyz, info, layout,
          i1, i2, i3, bad,     \* target_info files; bad does not parse
          inRed, inWhite, inGreen, inAll,   \* the layouts of the four levels
          missing, unreadable, invalid

MCPvs == {all, xyz}
MCPaths == {info, layout}
MCContents == {i1, i2, i3, bad, inRed, inWhite, inGreen, inAll}
MCPids == {0, 1, 2}

(* i1 and i2 give one product ID to two products, i3 the ID 0 to xyz.      *)
MCInfoOf == [c \in MCContents |->
               CASE c = i1 -> [pid |-> 1, pvs |-> xyz]
                 [] c = i2 -> [pid |-> 1, pvs |-> all]
                 [] c = i3 -> [pid |-> 0, pvs |-> xyz]
                 [] OTHER  -> invalid]

Own(s) == CASE s = "red" -> inRed [] s = "white" -> inWhite [] s = "green" -> inGreen
            [] OTHER -> inAll

TreeOf(layouts, infos) ==
    [p \in MCPvs \X {"red", "white", "green", "all"} \X MCPaths |->
       CASE p[1] = xyz /\ p[3] = layout -> layouts[p[2]]
         [] p[3] = info /\ <<p[1], p[2]>> \in DOMAIN infos -> infos[<<p[1], p[2]>>]
         [] p = <<all, "all", layout>> -> inAll
         [] OTHER -> missing]

Layouts == {f \in [{"red", "white", "green", "all"}
                    -> {inRed, inWhite, inGreen, inAll, missing, unreadable}] :
              \A s \in DOMAIN f : f[s] \in {Own(s), missing, unreadable}}

Infos == {(<<xyz, "all">> :> x) @@ (<<all, "green">> :> y) :
            x \in {i1, bad, unreadable}, y \in {i2, i3, missing}}

MCTrees == {TreeOf(l, i) : l \in Layouts, i \in Infos}

MCAsked == {<<xyz, "all", layout>>, <<xyz, "green", layout>>, <<all, "all", layout>>}

(* A file system store: few trees, and files that come and go.             *)
FSTrees == {TreeOf(l, (<<xyz, "all">> :> i1) @@ (<<all, "green">> :> i2)) :
              l \in {[s \in {"red", "white", "green", "all"} |-> missing],
                     [s \in {"red", "white", "green", "all"} |-> Own(s)]}}

FSEdits == {[place |-> <<xyz, "red", layout>>, answer |-> x] : x \in {inRed, inWhite, unreadable}}
           \cup {[place |-> <<xyz, "green", layout>>, answer |-> x] : x \in {inGreen, inAll, missing}}
           \cup {[place |-> <<xyz, "all", info>>, answer |-> x] : x \in {i1, i3, missing, bad}}

FixedStores == {[tree |-> t, edits |-> {}] : t \in MCTrees}
MCStores == FixedStores \cup {[tree |-> t, edits |-> FSEdits] : t \in FSTrees}
=============================================================================
