-------------------------------- MODULE MCReads --------------------------------
(* Instances for TLC of what answers questions and shows the answers: a      *)
(* behavior runs one part, the others rest in a fixed state.                 *)
EXTENDS RegistryConnector, RightsAnalysis, ScreenWords, MapView, ItemPanel, AppScreens,
        ItemList, Checklist, DailyCollector, TLC

VARIABLE part
readsVars == <<registryVars, analysisVars, itemVars, mapVars, panelVars, screenVars, listVars,
               checkVars, dailyVars, part>>

-----------------------------------------------------------------------------
(* Registry: a document, then one with a right that has no readable date. *)

Row(purpose) == [column |-> TRUE, purpose |-> purpose, received |-> "readable"]
RegistryDocuments ==
  << << Row("root_mortgage"), [Row("ownership") EXCEPT !.received = "unreadable"],
        Row("provisional_seizure"), Row("collateral_provisional_registration"),
        [Row("leasehold") EXCEPT !.column = FALSE], Row("seizure") >>,
     << [Row("mortgage") EXCEPT !.received = "unreadable"] >> >>

-----------------------------------------------------------------------------
(* Rights: tenants before and after the baseline, with and without a fixed  *)
(* date, taxes known and unknown; the sale before or after the reform of 2023. *)

Right(id, type, received, amount) ==
  [id |-> id, type |-> type, received |-> received, amount |-> amount,
   whole |-> FALSE, demanded |-> FALSE]
Auction == Right("auction", "AUCTION_COMMENCEMENT", 20220501, Absent)
RightLists ==
  { << Right("bank", "MORTGAGE", 20200310, 9000), Auction >>,
    << Right("bank", "MORTGAGE", 20190101, 6000), Right("clerk", "SEIZURE", 20210601, 4000), Auction >>,
    << [Right("lease", "LEASEHOLD", 20180301, 3000) EXCEPT !.whole = TRUE, !.demanded = TRUE],
       Right("bank", "MORTGAGE", 20200310, 9000), Auction >> }
Tenant(id, moveIn, fixed, deposit, demanded) ==
  [id |-> id, moveIn |-> moveIn, fixed |-> fixed, deposit |-> deposit, tranches |-> << >>,
   demanded |-> demanded, demandedOn |-> IF demanded THEN 20220701 ELSE Absent]
TenantLists ==
  { << Tenant("kim", 20180501, 20180502, 10000, kim), Tenant("lee", moveIn, fixed, 4000, lee) >> :
      kim \in BOOLEAN, lee \in BOOLEAN,
      moveIn \in {20190501, 20210701}, fixed \in {Absent, 20200705} }
Tax(id, property, statutory, amount) ==
  [id |-> id, property |-> property, statutory |-> statutory, amount |-> amount]
TaxLists ==
  { << >>, << Tax("own", TRUE, 20210101, Absent) >>,
    << Tax("own", TRUE, 20180101, 700), Tax("income", FALSE, 20200101, Absent) >> }
FileOf(rights, tenants, taxes, decided) ==
  [rights |-> rights, tenants |-> tenants, taxes |-> taxes, region |-> 1, deadline |-> 20220801,
   decided |-> decided, sale |-> Absent, cost |-> 301, kind |-> Absent, changes |-> 0]
\* No baseline right at all; a mortgage older than the first decree.
FailingFiles ==
  { FileOf(<< Right("way", "EASEMENT", 20190101, Absent) >>, tenants, << >>, Absent) :
      tenants \in TenantLists }
  \union { FileOf(<< Right("old", "MORTGAGE", 19800101, 9000), Auction >>, tenants, << >>, Absent) :
             tenants \in TenantLists }
ReadsFiles ==
  { FileOf(rights, tenants, taxes, decided) :
      rights \in RightLists, tenants \in TenantLists, taxes \in TaxLists,
      decided \in {Absent, 20220901} } \union FailingFiles
EmptyFile == FileOf(<< >>, << >>, << >>, Absent)

-----------------------------------------------------------------------------
(* Items: a home, then in a lot of several things after a failed auction;   *)
(* a notice with nobody, and one with two people in three rows.             *)

ItemRow(minimum, bulk, usage) ==
  [appraisal |-> 100000, minimum |-> minimum, bulk |-> bulk, usage |-> usage]
FirstItemRow == ItemRow(80000, FALSE, "home")
ReadsItemRows == {FirstItemRow, ItemRow(56000, TRUE, Absent)}
NoticeRow(seq, source, moveIn, deposit, demanded) ==
  [seq |-> seq, source |-> source, part |-> Absent, moveIn |-> moveIn, fixed |-> Absent,
   deposit |-> deposit, demanded |-> demanded, demandedOn |-> Absent]
Content(baseline, rights, rows) ==
  [said |-> [baseline |-> baseline, deadline |-> 20220801, rights |-> rights, flags |-> {}],
   rows |-> rows]
ReadsContents ==
  { Content(20190301, "NONE", << >>),
    Content(20200310, Absent, << NoticeRow(1, "survey", 20190501, Absent, Absent),
                         NoticeRow(1, "claim", 20190401, 4000, FALSE),
                         NoticeRow(2, "survey", 20180401, Absent, Absent) >>) }
ReadsRates == {Absent, <<600, 650, 950>>}

-----------------------------------------------------------------------------
(* Screens: three views of four items, two of them at one place, one nowhere. *)

View(items, close) == [shown |-> items, close |-> close]
StartView == View({"A", "B", "C"}, FALSE)
ReadsViews == {StartView, View({"A", "B"}, TRUE), View({"C", "D"}, TRUE)}
ReadsPlaces ==
  [i \in {"A", "B", "C", "D"} |->
     CASE i \in {"A", "B"} -> "x" [] i = "C" -> "y" [] i = "D" -> NoPlace]
ReadsGroups == {{"A"}, {"B"}, {"A", "B"}}

-----------------------------------------------------------------------------
(* Collector: two courts, the items of three cases.                         *)

ReadsListing == << <<"a", "b", "c", "d">>, <<"e">> >>
ReadsCases == [i \in {"a", "b", "c", "d", "e"} |->
                 CASE i = "a" -> 1 [] i = "e" -> 3 [] OTHER -> 2]

-----------------------------------------------------------------------------

Init ==
  /\ part \in {"registry", "files", "items", "map", "panel", "favorites", "list", "checks", "daily"}
              \union Pages
  /\ RegistryInit /\ ItemInit /\ MapInit
  /\ IF part = "files" THEN AnalysisInit ELSE file = EmptyFile /\ analysis = Analyze(file)
  /\ PanelInit /\ (part # "panel" => signedIn)
  /\ ScreensInit /\ (part # "favorites" => liked = {})
  /\ \A p \in Pages \ {part} : page[p].key = CHOOSE i \in Things : TRUE
  /\ item \in (IF part = "items" THEN {Absent, FirstItemRow} ELSE {Absent})
  \* Up to their names and the gaps between stamps, these are all lists.
  /\ ListInit /\ stamp[1] = 1 /\ \A i \in Stock \ {1} : stamp[i] - stamp[i - 1] \in {0, 1}
  /\ part # "list" => \A i \in Stock : stamp[i] = 1
  /\ DailyInit /\ (part # "daily" => base = NewBase)
  /\ ChecklistInit /\ (part # "checks" => disk = Empty)

Rest(p, others) == part = p /\ UNCHANGED <<others, part>>

RegistryPart == RegistryNext /\ Rest("registry",
  <<analysisVars, itemVars, mapVars, panelVars, screenVars, listVars, checkVars, dailyVars>>)
FilesPart == AnalysisNext /\ Rest("files",
  <<registryVars, itemVars, mapVars, panelVars, screenVars, listVars, checkVars, dailyVars>>)
ItemsPart == ItemNext /\ Rest("items",
  <<registryVars, analysisVars, mapVars, panelVars, screenVars, listVars, checkVars, dailyVars>>)
MapPart == MapNext /\ Rest("map",
  <<registryVars, analysisVars, itemVars, panelVars, screenVars, listVars, checkVars, dailyVars>>)
PanelPart == PanelNext /\ Rest("panel",
  <<registryVars, analysisVars, itemVars, mapVars, screenVars, listVars, checkVars, dailyVars>>)
FavoritesPart == ListNext /\ Rest("favorites",
  <<registryVars, analysisVars, itemVars, mapVars, panelVars, listVars, checkVars, dailyVars>>)
PagePart == \E p \in Pages : PageNext(p) /\ Rest(p,
  <<registryVars, analysisVars, itemVars, mapVars, panelVars, listVars, checkVars, dailyVars>>)
ListPart == ItemListNext /\ Rest("list",
  <<registryVars, analysisVars, itemVars, mapVars, panelVars, screenVars, checkVars, dailyVars>>)
ChecksPart == ChecklistNext /\ Rest("checks",
  <<registryVars, analysisVars, itemVars, mapVars, panelVars, screenVars, listVars, dailyVars>>)
DailyPart == DailyNext /\ Rest("daily",
  <<registryVars, analysisVars, itemVars, mapVars, panelVars, screenVars, listVars, checkVars>>)
Next ==
  \/ RegistryPart \/ FilesPart \/ ItemsPart \/ MapPart \/ PanelPart
  \/ FavoritesPart \/ PagePart \/ ListPart \/ ChecksPart \/ DailyPart

RegistrySymmetry == Permutations(Caller) \union Permutations(Key)

Spec == Init /\ [][Next]_readsVars

=============================================================================
