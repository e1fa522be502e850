------------------------------ MODULE Roadmap --------------------------------
(***************************************************************************)
(* How soon a gap can be closed with the telemetry a customer has          *)
(* (_feasibility in app/mitre/ranking.py).                                 *)
(*                                                                         *)
(* Recomputed whenever the Log Sources or Tooling sheet is edited: the     *)
(* state is the two sheets.  A row's categories, its being an identity     *)
(* provider and its health stand for the keyword and date rules.           *)
(***************************************************************************)
EXTENDS Naturals, FiniteSets, Sequences

CONSTANTS
    Categories, \* telemetry categories
    HostGaps,   \* gaps no identity provider can observe
    Wants,      \* Wants[g]: categories of the components a gap lists, in order
    MaxSources  \* bound: rows of the Log Sources sheet

ASSUME RoadmapAssumption ==
    MaxSources \in Nat /\ \A g \in DOMAIN Wants : Wants[g] \in Seq(Categories)

VARIABLES
    source, \* the Log Sources sheet, in row order
    tooling \* categories a tool could provide: <<category, is an IdP>>

roadvars == <<source, tooling>>

Gaps == DOMAIN Wants
Sources == [category : Categories, idp : BOOLEAN, healthy : BOOLEAN]

HowOften(g, c) == Cardinality({i \in DOMAIN Wants[g] : Wants[g][i] = c})
FirstSeen(g, c) == CHOOSE i \in DOMAIN Wants[g] :
                       Wants[g][i] = c /\ \A j \in 1..(i - 1) : Wants[g][j] # c
Needed(g) == {Wants[g][i] : i \in DOMAIN Wants[g]}
\* Dominant category first; ties keep component order.
Before(g, c, d) == \/ HowOften(g, c) > HowOften(g, d)
                   \/ HowOften(g, c) = HowOften(g, d) /\ FirstSeen(g, c) < FirstSeen(g, d)

\* _source_sees_technique
Sees(idp, c, g) == c = "identity" /\ idp => g \notin HostGaps

Onboarded(g, c) == {i \in DOMAIN source :
                        source[i].category = c /\ Sees(source[i].idp, c, g)}
Listed(g, c) == \E i \in DOMAIN source : source[i].category = c
Usable(g, c) == Onboarded(g, c) # {}
\* The first category, in order, with a source that can see the technique.
Chosen(g) == {c \in Needed(g) : /\ Usable(g, c)
                                /\ \A d \in Needed(g) : Before(g, d, c) => ~Usable(g, d)}

Bucket(g) ==
    IF \E c \in Chosen(g) : \E i \in Onboarded(g, c) : source[i].healthy THEN "short"
    ELSE IF \/ Chosen(g) # {}
            \/ \E c \in Needed(g), idp \in BOOLEAN :
                  <<c, idp>> \in tooling /\ Sees(idp, c, g)
    THEN "mid" ELSE "long"

RoadInit == source = <<>> /\ tooling = {}

AddSource(s) ==
    /\ Len(source) < MaxSources
    /\ source' = Append(source, s)
    /\ UNCHANGED tooling

ChangeHealth(i) ==
    /\ source' = [source EXCEPT ![i].healthy = ~@]
    /\ UNCHANGED tooling

RemoveSource ==
    /\ source # <<>>
    /\ source' = Tail(source)
    /\ UNCHANGED tooling

AddTool(c, idp) ==
    /\ <<c, idp>> \notin tooling
    /\ tooling' = tooling \cup {<<c, idp>>}
    /\ UNCHANGED source

RoadNext ==
    \/ \E s \in Sources : AddSource(s)
    \/ \E i \in DOMAIN source : ChangeHealth(i)
    \/ RemoveSource
    \/ \E c \in Categories, idp \in BOOLEAN : AddTool(c, idp)

RoadSpec == RoadInit /\ [][RoadNext]_roadvars

----------------------------------------------------------------------------
Nearness == [long |-> 0, mid |-> 1, short |-> 2]
\* A healthy source is onboarded, one is repaired, or a tool is declared.
Better ==
    \/ /\ Len(source') = Len(source) + 1
       /\ source'[Len(source')].healthy
    \/ /\ Len(source') = Len(source)
       /\ \A i \in DOMAIN source : source[i].healthy => source'[i].healthy

\* Better telemetry never moves a gap further away, whatever the order of its
\* categories and of the sheet's rows.  (An unhealthy source may: in a category
\* that comes first it hides a healthy one of a later category.)
BetterTelemetryNeverHurts ==
    [][Better => \A g \in Gaps : Nearness[Bucket(g)] <= Nearness[Bucket(g)']]_roadvars
============================================================================
