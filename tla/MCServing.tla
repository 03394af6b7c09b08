------------------------------ MODULE MCServing ------------------------------
(***************************************************************************)
(* What the API serves from and changes while it does: the autocomplete    *)
(* index, a place's document, and the pages of /nearby.  They share no     *)
(* state the models keep; each behaviour is one of one of the three.       *)
(***************************************************************************)
EXTENDS SuggestIndex, PlaceDocument, NearbyScroll

CONSTANTS p1, p2, p3, o1, o2, self

MCRank    == (<<p1, 0>> :> 0) @@ (<<p1, 1>> :> 6) @@ (<<p2, 0>> :> 3) @@ (<<p2, 1>> :> 1)
             @@ (<<p3, 0>> :> 8) @@ (<<p3, 1>> :> 9)
MCAreaOf  == (o1 :> 2) @@ (o2 :> 5) @@ (self :> 2)
MCTagSets == {[k \in {"name"} |-> 1], [k \in {"name", "cuisine"} |-> 1]}
MCPoints  == {0, 1}
MCCellOf  == [p \in MCPoints |-> 0]
MCSites   == {-1, 1}

VARIABLE part

servingVars == <<part, suggestVars, placeVars, nearbyVars>>

MCInit ==
    /\ part \in {"suggest", "document", "scroll"}
    /\ SuggestInit /\ PlaceInit /\ NearbyInit
    /\ part # "document" => google
    /\ part # "scroll" => DOMAIN index = {}

MCNext ==
    /\ UNCHANGED part
    /\ \/ part = "suggest" /\ SuggestNext /\ UNCHANGED <<placeVars, nearbyVars>>
       \/ part = "document" /\ PlaceNext /\ UNCHANGED <<suggestVars, nearbyVars>>
       \/ part = "scroll" /\ NearbyNext /\ UNCHANGED <<suggestVars, placeVars>>

MCFairness ==
    /\ \A c \in Clicks : WF_suggestVars(part = "suggest" /\ ClickStep(c))
    /\ \A w \in Warmers : WF_suggestVars(part = "suggest" /\ WarmStep(w))
    /\ WF_suggestVars(part = "suggest" /\ SuggestTick)
    /\ WF_suggestVars(part = "suggest" /\ Refresh)
    /\ \A r \in Processes : /\ WF_placeVars(part = "document" /\ FindAddress(r))
                            /\ WF_placeVars(part = "document" /\ WriteAddress(r))
                            /\ WF_placeVars(part = "document" /\ Search(r))

ServingSpec == MCInit /\ [][MCNext]_servingVars /\ MCFairness

(* ForemostWarmed of SuggestIndex, for the behaviours of that part.        *)
PlacesWarmed == part = "suggest" => ForemostWarmed

(* The foremost places get into the suggestions, and a document gets an    *)
(* address that address_needs_refresh has nothing to object to.            *)
ServingSettles == PlacesWarmed /\ AddressSettles
==============================================================================
