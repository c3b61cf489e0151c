----------------------------- MODULE MCPmt -----------------------------
(***************************************************************************)
(* Two endpoints below one PCI device and one below another. Control       *)
(* commands do not look at what an endpoint holds, so they start on one    *)
(* content; the extraction of everything finds each endpoint twice.        *)
(***************************************************************************)
EXTENDS Pmt

CONSTANTS e1, e2, e3, x, y

MCEndpoints == {e1, e2, e3}
MCBdfs == {x, y}
MCHome == [e \in Endpoints |-> IF e = e3 THEN y ELSE x]

(* All attribute files, and e2 without trigger and crashlog.               *)
Full == [e \in Endpoints |-> Entry]
MCEntrySets == {Full, [Full EXCEPT ![e2] = {"clear", "enable"}]}
Records == [e \in Endpoints |-> "record"]

Name(e) == [kind |-> "name", of |-> e]
Bdf(b) == [kind |-> "bdf", of |-> b]
Acpi == [kind |-> "other", of |-> "acpi"]
Req(op, sources) == [op |-> op, sources |-> sources]
Setup(present, attributes, holds, req) ==
    [there |-> present, entries |-> attributes, content |-> holds, request |-> req]

ControlRequests ==
    {Req("trigger", <<Bdf(x), Name(e3)>>), Req("enable", <<Bdf(x), Acpi>>),
     Req("disable", <<Name(e1)>>), Req("clear", <<Bdf(y), Bdf(x)>>),
     Req("trigger", << >>)}
ExtractRequests ==
    {Req("extract", <<Bdf(x)>>), Req("extract", <<Name(e1), Bdf(x)>>)}

MCSetups ==
    {Setup(present, attributes, Records, req) :
        present \in SUBSET Endpoints, attributes \in MCEntrySets, req \in ControlRequests}
    \cup
    {Setup(present, attributes, holds, req) :
        present \in {{e1, e2}, {e1, e3}, {e2}}, attributes \in MCEntrySets,
        holds \in {h \in [Endpoints -> Content] : h[e3] = "record"}, req \in ExtractRequests}
    \cup
    {Setup({e1, e2}, Full, [Records EXCEPT ![e1] = "garbage"], Req("extract", << >>)),
     Setup({e3}, Full, Records, Req("extract", << >>))}

DefaultSetups ==
    {Setup(present, attributes, Records, Req("trigger", << >>)) :
        present \in SUBSET Endpoints, attributes \in MCEntrySets}
=============================================================================
