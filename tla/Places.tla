------------------------------- MODULE Places -------------------------------
(***************************************************************************)
(* What a record's header, and that of the box it was found in, say about  *)
(* where its registers go and which layouts it is decoded with (header.rs, *)
(* record/decode.rs): the die it comes from, and the product whose target  *)
(* information has a name for that die.                                    *)
(*                                                                         *)
(* A name is a sequence of characters, 0 to 9 being the digits.            *)
(***************************************************************************)
EXTENDS Integers, Sequences, SequencesExt, FiniteSetsExt, TLC

CONSTANTS
    TargetInfo,  \* product id -> [product, variant, dies], dies: die id -> name
    Layouts,     \* [pvs, type, die, revision, layout] -> the lines of a layout,
                 \* as the collateral manager finds it
    Processors, Cpu, Die  \* names

(* Of a header: [product, revision, socket, die], die being NoDie unless   *)
(* the header is of type 6 or of a legacy server; and of a record besides: *)
(* parent, the header of its box or NoParent, name, that of its type, and  *)
(* known, whether the type has one.                                        *)
NoDie == -1
NoParent == [product |-> 0, revision |-> 0, socket |-> 0, die |-> NoDie]
AnyRevision == -1  \* "all"

Name == Seq(Int) \ {<< >>}
LayoutLine == [bad : BOOLEAN, name : Seq(Seq(Int)), offset : Nat, size : Nat]

ASSUME PlacesAssumption ==
    /\ {Processors, Cpu, Die} \subseteq Name
    /\ \A p \in DOMAIN TargetInfo : \A d \in DOMAIN TargetInfo[p].dies :
          d # NoDie /\ TargetInfo[p].dies[d] \in Name
    /\ \A key \in DOMAIN Layouts : Layouts[key] \in Seq(LayoutLine)

TrimDigits(name) == SubSeq(name, 1, Max({0} \cup {i \in DOMAIN name : name[i] \notin 0 .. 9}))

(* Header::die: at most one name.                                          *)
DieNames(h) ==
    {TargetInfo[p].dies[h.die] :
        p \in {p \in {h.product} \cap DOMAIN TargetInfo : h.die \in DOMAIN TargetInfo[p].dies}}

(* Where a header leads by the name of its die, and where by its number.   *)
NamedRoot(h) == {<<Processors, Append(Cpu, h.socket), name>> : name \in DieNames(h)}
NumberedRoot(h) ==
    IF h.die = NoDie THEN {}
    ELSE {<<Processors, Append(Cpu, h.socket), Append(Die, h.die)>>}

(* Record::get_root_path_using_cm, then Record::get_root_path.             *)
Root(r) ==
    LET roots == <<NamedRoot(r.hdr), NamedRoot(r.parent), NumberedRoot(r.hdr), NumberedRoot(r.parent)>>
        some == {i \in 1 .. 4 : roots[i] # {}}
    IN IF some = {} THEN << >> ELSE CHOOSE root \in roots[Min(some)] : TRUE

---------------------------------------------------------------------------
(* Header::pvss: an unknown product is none, but for the product zero.     *)
Pvs(h) ==
    IF h.product \in DOMAIN TargetInfo
    THEN {<<TargetInfo[h.product].product, TargetInfo[h.product].variant>>}
    ELSE IF h.product = 0 THEN {<<"all", "all">>} ELSE {}

(* Header::decode_definitions_paths: a named die has layouts of its own.   *)
LayoutPaths(r) ==
    LET Path(die, revision) == [type |-> r.name, die |-> die, revision |-> revision]
    IN IF ~r.known THEN << >>
       ELSE IF DieNames(r.hdr) = {}
       THEN <<Path(<< >>, r.hdr.revision), Path(<< >>, AnyRevision)>>
       ELSE <<Path(TrimDigits(CHOOSE name \in DieNames(r.hdr) : TRUE), r.hdr.revision)>>

(* The lines of the layout d the record is decoded with, the first of      *)
(* those there are.                                                        *)
LayoutKey(r, path, d) ==
    [pvs |-> CHOOSE pvs \in Pvs(r.hdr) : TRUE, type |-> path.type, die |-> path.die,
     revision |-> path.revision, layout |-> d]

LayoutsOf(r, d) ==
    IF Pvs(r.hdr) = {} THEN << >>
    ELSE LET paths == LayoutPaths(r)
             Key(i) == LayoutKey(r, paths[i], d)
             some == {i \in DOMAIN paths : Key(i) \in DOMAIN Layouts}
         IN IF some = {} THEN << >> ELSE <<Layouts[Key(Min(some))]>>
=============================================================================
