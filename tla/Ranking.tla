-------------------------------- MODULE Ranking --------------------------------
(***************************************************************************)
(* The prominence of an element (shared/ranking.py, compute_offline_rank). *)
(*                                                                         *)
(* Scores are integers in hundredths and weights in tenths; the lookup     *)
(* tables are reduced to the score they give, 0 when nothing is found.  A  *)
(* logarithm is given by its value: log10(population) and, for the area,   *)
(* log10(km2), in whole decades; {} is no population, no area.             *)
(***************************************************************************)
EXTENDS Integers, FiniteSetsExt

Clamped(n) == Max({0, Min({100, n})})

\* A tag record has the scores of the tags that are tables in the code.
AdminScore(level) == IF level <= 0 THEN 0 ELSE Clamped(100 - 10 * (level - 2))
PopulationScore(decades) ==
    IF decades = {} THEN 0 ELSE Min({100, (100 * (CHOOSE d \in decades : TRUE)) \div 7})
AreaScore(decades) ==
    IF decades = {} THEN 0 ELSE Clamped((100 * ((CHOOSE d \in decades : TRUE) + 2)) \div 6)
MetadataScore(tags) == (IF tags.wikidata THEN 50 ELSE 0) + (IF tags.wikipedia THEN 50 ELSE 0)
OfficeScore(tags) ==
    CASE tags.office = "none" -> 0 [] tags.office = "other" -> 30 [] OTHER -> 55
NamedPoiScore(tags) == IF tags.named /\ tags.evidence THEN 25 ELSE 0

\* Mutant of PoiScore: the kinds of venue add up.
PoiScoreSum(tags) == tags.venue + tags.building + OfficeScore(tags) + NamedPoiScore(tags)

\* The kinds of venue an element is, the best of them.
PoiScore(tags) == Max({tags.venue, tags.building, OfficeScore(tags), NamedPoiScore(tags)})

WAdmin == 50    WArea == 40     WPlace == 25    WPop == 15      WHighway == 15
WNatural == 10  WMeta == 5      WLanduse == 10  WPoi == 10      WBrand == 3
WBase == WPlace + WPop + WMeta + WLanduse + WPoi + WBrand

If(condition, weight) == IF condition THEN weight ELSE 0

\* The weights that apply to the element.
WTotal(tags, admin, area) ==
    WBase + If(admin > 0, WAdmin) + If(area # {}, WArea)
          + If(tags.highway > 0, WHighway) + If(tags.natural > 0, WNatural)

Raw(tags, admin, area) ==
    WAdmin * AdminScore(admin) + WArea * AreaScore(area)
        + WPlace * tags.place + WPop * PopulationScore(tags.population)
        + WMeta * MetadataScore(tags) + WLanduse * tags.landuse + WBrand * tags.brand
        + WPoi * PoiScore(tags) + WHighway * tags.highway + WNatural * tags.natural

\* The rank, in thousandths of the scale 0 to 10.
ComputeOfflineRank(tags, admin, area) ==
    (100 * Raw(tags, admin, area)) \div WTotal(tags, admin, area)
===============================================================================
