--------------------------- MODULE Expansion ---------------------------
(***************************************************************************)
(* What CrashLog::from_slice promises, without a work list: the regions of *)
(* the usable sections are found, then the region inside any box found, in *)
(* any order, each box being opened once, until no box is left.            *)
(*                                                                         *)
(* A region is described here by what it is, the longest run of records    *)
(* from the start of a slice, rather than by the loop that reads it.       *)
(***************************************************************************)
EXTENDS Header, Sequences

VARIABLES
    image, input,    \* as in CrashLog
    loaded,          \* the sections dealt with
    found,           \* the regions found
    opened,          \* the boxes opened, by their offsets
    outcome          \* none, done or failed

vars == <<image, input, loaded, found, opened, outcome>>

(* A record starts at offset o of a slice that ends at end. *)
Starts(o, end) ==
    /\ o < end
    /\ Decodes(image.at[o], end - o)
    /\ RecordSize(HeaderOf(image.at[o])) > 0

Limit(r) == r.at + RecordSize(r.hdr)

RegionOf(r, base, end, parent) ==
    /\ r # << >> /\ r[1].at = base
    /\ \A i \in DOMAIN r :
         /\ Starts(r[i].at, end)
         /\ r[i].hdr = HeaderOf(image.at[r[i].at])
         /\ r[i].lim = IF Limit(r[i]) < end THEN Limit(r[i]) ELSE end
         /\ r[i].parent = parent
         /\ i < Len(r) => r[i + 1].at = Limit(r[i])
    /\ ~Starts(Limit(r[Len(r)]), end)

(* The slice gives its region, or nothing if no record starts it.          *)
Finds(base, end, parent) ==
    IF Starts(base, end)
    THEN \E r \in found' : RegionOf(r, base, end, parent) /\ found' = found \cup {r}
    ELSE UNCHANGED found

PayloadOf(b) == b.at + HeaderSize(b.hdr)
Boxes == {b \in UNION {{r[i] : i \in DOMAIN r} : r \in found} :
            IsBox(b.hdr) /\ PayloadOf(b) <= b.lim}

---------------------------------------------------------------------------
Init ==
    /\ loaded = {} /\ found = {} /\ opened = {} /\ outcome = "none"

Load ==
    /\ \E i \in DOMAIN input.sections \ loaded :
         /\ loaded' = loaded \cup {i}
         /\ IF input.sections[i].tag = "crashlog"
            THEN Finds(input.sections[i].base, input.sections[i].end, -1)
            ELSE UNCHANGED found
    /\ UNCHANGED <<image, input, opened, outcome>>

Open ==
    /\ loaded = DOMAIN input.sections
    /\ \E b \in Boxes :
         /\ b.at \notin opened
         /\ opened' = opened \cup {b.at}
         /\ Finds(PayloadOf(b), b.lim, b.at)
    /\ UNCHANGED <<image, input, loaded, outcome>>

Succeed ==
    /\ loaded = DOMAIN input.sections
    /\ found # {}
    /\ \A b \in Boxes : b.at \in opened
    /\ outcome' = "done"
    /\ UNCHANGED <<image, input, loaded, found, opened>>

Fail ==
    /\ found = {}
    /\ \A i \in DOMAIN input.sections :
         LET s == input.sections[i] IN s.tag = "crashlog" => ~Starts(s.base, s.end)
    /\ outcome' = "failed"
    /\ UNCHANGED <<image, input, loaded, found, opened>>

Next == outcome = "none" /\ (Load \/ Open \/ Succeed \/ Fail)

Spec == Init /\ [][Next]_vars
=============================================================================
