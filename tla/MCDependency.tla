---------------------------- MODULE MCDependency ----------------------------
(***************************************************************************)
(* Instances of MarketDependencyFinder.  Declarations are optional, so one *)
(* run covers every configuration that draws on them.                      *)
(***************************************************************************)
EXTENDS MarketDependencyFinder

Act(i, p) == [item |-> i, priced |-> p]
Dep(d, i) == [dependent |-> d, dependency |-> i, canBreak |-> TRUE]
Hard(d, i) == [dependent |-> d, dependency |-> i, canBreak |-> FALSE]

\* Three energy sectors that may consume each other in any combination, and a
\* fourth one linked with one of them.
CycleItem == {"elec", "gas", "H2", "oil"}
CycleActivity == {Act(i, TRUE) : i \in CycleItem}
CycleDeclaration == {Dep("elec", "elec"), Dep("oil", "H2"), Dep("H2", "oil")} \cup
    {Dep(d, i) : <<d, i>> \in {p \in {"elec", "gas", "H2"} \X {"elec", "gas", "H2"} : p[1] # p[2]}}
CycleMarketOf == [i \in CycleItem |-> i]

\* Two regions: crops traded on one market with the land allocators as their
\* suppliers, a reserve of uranium registered in the second region and used in
\* the first, and a carbon tax nobody may mention.
RegionalItem == {"corn1", "corn2", "land1", "uranium1", "uranium2", "elec1", "CO2"}
RegionalActivity == {Act("corn1", TRUE), Act("corn2", TRUE), Act("land1", FALSE),
                     Act("uranium2", FALSE), Act("elec1", TRUE)}
RegionalRequired == {Dep("land1", "corn1")}
RegionalDeclaration == RegionalRequired \cup
    {Dep("land1", "CO2"), Dep("elec1", "corn2"), Dep("corn1", "elec1"),
     Dep("elec1", "uranium1"), Dep("elec1", "CO2"), Dep("corn1", "corn1"),
     Dep("elec1", "elec1")}
RegionalMarketOf ==
    [i \in RegionalItem |-> CASE i \in {"corn1", "corn2"} -> "corn"
                              [] i \in {"uranium1", "uranium2"} -> "uranium"
                              [] i = "land1" -> "none"
                              [] OTHER -> i]

\* A pass through sector whose fixed output is gathered for the sector that
\* earns its revenue, inside a cycle of the two, and an end use sector with the
\* final demand of its name.
PassItem == {"crop", "feed", "crop-fixed-output", "trn"}
PassActivity == {Act("crop", TRUE), Act("feed", TRUE), Act("crop-fixed-output", FALSE),
                 Act("trn", TRUE), Act("trn", FALSE)}
PassRequired == {Dep("crop-fixed-output", "crop"), Dep("crop-fixed-output", "feed")}
PassDeclaration == PassRequired \cup
    {Dep("feed", "crop"), Dep("crop", "feed"), Dep("trn", "feed"), Dep("feed", "trn"),
     Dep("crop", "crop"), Dep("feed", "feed")}
PassMarketOf == [i \in PassItem |-> i]

\* Intermittent technologies backed up by the electricity sector, whose market
\* sets a trial price for the backup, and an emission policy linked to the
\* carbon tax by a dummy calculation.
BackupItem == {"elec", "wind", "wind-trial", "GHG", "CO2"}
BackupActivity == {Act("elec", TRUE), Act("wind", TRUE), Act("GHG", TRUE)}
BackupRequired == {Hard("GHG", "CO2")}
BackupDeclaration == BackupRequired \cup
    {Hard("elec", "wind"), Dep("elec", "wind"), Dep("wind", "wind-trial"), Dep("wind", "elec"),
     Hard("wind", "elec"), Dep("elec", "GHG")}
BackupMarketOf == [i \in BackupItem |-> i]

\* An end use sector with use-trial-market, the final demand of its name, and
\* the sector it buys from.
EndUseItem == {"trn", "elec"}
EndUseActivity == {Act("trn", TRUE), Act("trn", FALSE), Act("elec", TRUE)}
EndUseRequired == {Dep("trn", "elec")}
EndUseDeclaration == EndUseRequired \cup {Dep("trn", "trn")}
EndUseMarketOf == [i \in EndUseItem |-> i]

=============================================================================
