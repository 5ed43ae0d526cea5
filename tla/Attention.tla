------------------------------ MODULE Attention ------------------------------
(***************************************************************************)
(* What calls for the attention of the two sides of an application         *)
(* (src/application-attention, and the overviews of                        *)
(* src/application-read-models that count it): the obligations of the      *)
(* viewing workflow beside those of the documents and the unread messages, *)
(* gathered over the applications a side may see, for the menus and for    *)
(* the provider's overview of a listing, which reads only some of them.    *)
(*                                                                         *)
(* The documents and messages are parameters of the readers: how many of   *)
(* them are due, were the process to go on.  A page holds more than the    *)
(* one application here, so paging is left out.                            *)
(***************************************************************************)
EXTENDS ViewingProjection

\* scope()
Visible(side) == side = "APPLICANT" \/ ProviderVisible

\* viewingActions: the pending action an obligation becomes for the side that owes it.
ActionType ==
  [RESPOND |-> [APPLICANT |-> "RESPOND_TO_VIEWING", PROVIDER |-> "RESPOND_TO_VIEWING_CHANGE_REQUEST"],
   RECORD_OUTCOME |-> [APPLICANT |-> "NONE", PROVIDER |-> "RECORD_VIEWING_OUTCOME"],
   CONFIRM_INTEREST |-> [APPLICANT |-> "CONFIRM_POST_VIEWING_INTEREST", PROVIDER |-> "NONE"],
   DECIDE_CONSIDERATION |-> [APPLICANT |-> "NONE", PROVIDER |-> "DECIDE_VIEWING_CONSIDERATION"]]

\* derive(), of the viewing.
PendingViewing(side) == {ActionType[name][side] : name \in PendingActions(side)}

\* The attention of the application: composeWithinTransaction().
Item(side, documents, unread) ==
  [viewing |-> PendingViewing(side),
   documents |-> IF CanMutate THEN documents ELSE 0,
   unread |-> IF CanMutate THEN unread ELSE 0,
   next |-> AttentionRevalidateAt(side)]

Count(item) == Cardinality(item.viewing) + item.documents

Actionable(item) == Count(item) > 0 \/ item.unread > 0

\* detail(), and what the workspace and the cards show: the attention of the
\* application, if the side may see it.
Detail(side, documents, unread) ==
  {item \in {Item(side, documents, unread)} : Visible(side)}

NoTotals == [applications |-> 0, pending |-> 0, documents |-> 0, viewing |-> 0, unread |-> 0, next |-> Never]

\* AttentionTotalAccumulator
Total(item) ==
  [applications |-> IF Count(item) > 0 THEN 1 ELSE 0, pending |-> Count(item),
   documents |-> item.documents, viewing |-> Cardinality(item.viewing),
   unread |-> item.unread, next |-> item.next]

Totals(items) == IF items = {} THEN NoTotals ELSE Total(CHOOSE item \in items : TRUE)

\* Mutated form of Menu: the quiet are left out before their time is looked at.
MenuOfTheActionable(items) == Totals({item \in items : Actionable(item)})

\* aggregate() of the actionable applications: a quiet one is no entry, but the time
\* at which it may become one is kept.
Menu(items) ==
  LET total == Totals(items)
  IN  IF \E item \in items : Actionable(item) THEN total
      ELSE [NoTotals EXCEPT !.next = total.next]

\* Mutated form of Scanned: a viewing is over when the process is.
ScannedUnlessEnded(retained) ==
  \/ application = "ACTIVE" /\ listing \in {"PUBLISHED", "PAUSED"}
  \/ retained
  \/ WithStatus({"ACCEPTED"} \cup Outcomes) # {}

\* The overview of a listing skips what has no part in it any more.
Scanned(retained) ==
  \/ application = "ACTIVE" /\ listing \in {"PUBLISHED", "PAUSED"}
  \/ retained
  \/ WithStatus({"ACCEPTED", "OUTCOME_PENDING"} \cup Outcomes) # {}

\* summaries(): the totals of a listing, and the cards of those retained.
Summaries(items, retained) ==
  LET scanned == {item \in items : Scanned(retained)}
  IN  [totals |-> Totals(scanned), cards |-> {item \in scanned : retained}]

\* overview(), of all the listings of the provider
Overview(items) == Summaries(items, FALSE)

\* listing(): the overview of one, with the cards of the first of the process.
ListingOverview(items) == Summaries(items, application = "ACTIVE")

-----------------------------------------------------------------------------
(***************************************************************************)
(* Properties.                                                             *)
(***************************************************************************)
\* The overviews count what the menu counts and look again when it does: what they
\* skip, to be quick, has nothing due and nothing that will become due.  And every
\* application in the process has its card in the overview of its listing, which
\* fails as a whole where one is missing.
OverviewsMatchMenu ==
  ~Scanned(FALSE) =>
    LET items == Detail("PROVIDER", 1, 1)
        listed == ListingOverview(items)
    IN  /\ {Overview(items).totals, listed.totals} = {Menu(items)}
        /\ application = "ACTIVE" => listed.cards # {}

\* What a side is shown, the obligations its menu counts among it, changes with the
\* time only at the instant the menu of the actionable applications announced as the
\* next one to look again, even when the application was no entry of it.  One change
\* is not announced: an offer beside a request for interest that ran out can be
\* acted on by nobody, and is shown as expired from its deadline all the same.
ChangesAreAnnounced ==
  [][clock' # clock =>
       \A side \in Sides :
         Visible(side) =>
           \/ Shown(side)' = Shown(side)
           \/ clock' = Menu(Detail(side, 0, 0)).next
           \/ InterestExpired /\ Shown(side)' = [Shown(side) EXCEPT !.offers[wf.pending] = "EXPIRED"]]_allVars
=============================================================================
