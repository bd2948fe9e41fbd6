-------------------------- MODULE Visibility_proofs --------------------------
(***************************************************************************)
(* The copies of the visibility rules agree for every number of users and  *)
(* organizations and whatever rows exist.  Each agreement is a fact about  *)
(* one state; the last needs the type of the source's mode as well.        *)
(***************************************************************************)
EXTENDS Visibility, TLAPS

\* Whoever edits a problem by either path is found by the other.
LEMMA EditAgreement ==
  ASSUME NEW u PROVE InEditableProblems(u) <=> IsEditableBy(u)
  BY DEF InEditableProblems, IsEditableBy, HasPerm

\* The problem list shows exactly the problems whose pages open.
LEMMA ProblemAgreement ==
  ASSUME NEW u \in People PROVE InVisibleProblems(u) <=> IsAccessibleBy(u, TRUE)
<1>1. CASE ~IsAuthenticated(u)
  BY <1>1 DEF InVisibleProblems, IsAccessibleBy, IsEditableBy, HasPerm
<1>2. CASE IsAuthenticated(u)
  BY <1>2 DEF InVisibleProblems, IsAccessibleBy, IsEditableBy, HasPerm,
              OrganizationFilter, InOrganization, AdministersIt
<1> QED BY <1>1, <1>2

\* The query of visible contests and the access check decide alike, for one user and
\* one contest, and who may edit a contest may see it.
LEMMA ContestAgreement ==
  ASSUME NEW u \in People PROVE InVisibleContests(u) <=> AccessCheck(u)
<1>1. CASE ~IsAuthenticated(u)
  BY <1>1 DEF InVisibleContests, AccessCheck
<1>2. CASE IsAuthenticated(u)
  BY <1>2 DEF InVisibleContests, AccessCheck, IsContestEditor
<1> QED BY <1>1, <1>2

\* The list of problems agrees with the page of a problem in every state.
THEOREM ProblemLists == Spec => []ProblemListAgrees
<1>1. ProblemListAgrees
  BY ProblemAgreement DEF ProblemListAgrees
<1> QED BY <1>1, PTL

\* The list of problems to edit agrees with the check, and editing implies
\* seeing, in every state.
THEOREM EditLists == Spec => []EditListAgrees
<1>1. EditListAgrees
  BY EditAgreement DEF EditListAgrees, IsAccessibleBy, IsEditableBy, IsAuthenticated
<1> QED BY <1>1, PTL

\* The list of contests agrees with the check of a contest's page in every state.
THEOREM ContestLists == Spec => []ContestListAgrees
<1>1. ASSUME NEW u \in People, ContestEditableBy(u) PROVE AccessCheck(u)
  BY <1>1 DEF ContestEditableBy, AccessCheck, HasPerm
<1>2. ContestListAgrees
  BY <1>1, ContestAgreement DEF ContestListAgrees
<1> QED BY <1>2, PTL

\* The lists of tickets agree with the page of a ticket in every state.
THEOREM TicketLists == Spec => []TicketListAgrees
<1>1. ASSUME NEW u \in Users
      PROVE /\ InTickets(u) <=> CanOpenTicket(u)
            /\ InProblemTickets(u) => CanOpenTicket(u)
            /\ CanOpenTicket(u) /\ IsAccessibleBy(u, FALSE) /\ ~HasPerm(u, "change_ticket")
                 => InProblemTickets(u)
  <2>1. InTickets(u) <=> CanOpenTicket(u)
    BY EditAgreement DEF InTickets, CanOpenTicket, InOwnTickets, IsAuthenticated
  <2>2. InProblemTickets(u) => CanOpenTicket(u)
    BY <2>1 DEF InProblemTickets
  <2>3. CanOpenTicket(u) /\ IsAccessibleBy(u, FALSE) /\ ~HasPerm(u, "change_ticket")
          => InProblemTickets(u)
    BY <2>1 DEF CanOpenTicket, InProblemTickets, InOwnTickets
  <2> QED BY <2>1, <2>2, <2>3
<1>2. TicketListAgrees
  BY <1>1 DEF TicketListAgrees
<1> QED BY <1>2, PTL

\* Rows, flags and the mode keep their types.
THEOREM TypeCorrect == Spec => []TypeOK
<1>1. Init => TypeOK
  BY DEF Init, TypeOK
<1>2. TypeOK /\ [Next]_visVars => TypeOK'
  <2> SUFFICES ASSUME TypeOK, [Next]_visVars PROVE TypeOK'
    OBVIOUS
  <2>1. ASSUME NEW r \in Rows, Insert(r) \/ Delete(r) PROVE TypeOK'
    BY <2>1 DEF TypeOK, Insert, Delete
  <2>2. ASSUME NEW f \in ProblemFlags \cup ContestFlags, SetFlag(f) PROVE TypeOK'
    BY <2>2 DEF TypeOK, SetFlag
  <2>3. CASE SetSource
    BY <2>3 DEF TypeOK, SetSource
  <2>4. CASE UNCHANGED visVars
    BY <2>4 DEF TypeOK, visVars
  <2> QED BY <2>1, <2>2, <2>3, <2>4 DEF Next
<1> QED BY <1>1, <1>2, PTL DEF Spec

\* A row links only to submissions that open, in every state.
THEOREM RowLinksOpen == Spec => []RowLinkOpens
<1>1. ASSUME TypeOK, NEW u \in Users, NEW own \in BOOLEAN, NEW inContest \in BOOLEAN,
             RowLinks(u, own, inContest),
             (HasPerm(u, "edit_all_problem") \/ HasPerm(u, "edit_public_problem"))
               => HasPerm(u, "edit_own_problem"),
             In("completed", u) => In("solved", u)
      PROVE CanSeeDetail(u, own, inContest)
  <2>1. IsAuthenticated(u)
    BY DEF IsAuthenticated
  <2>2. CASE \/ HasPerm(u, "edit_all_problem")
             \/ HasPerm(u, "edit_public_problem") /\ Is("is_public")
             \/ InEditableProblems(u)
    <3>1. IsEditableBy(u)
      BY <1>1, <2>1, <2>2, EditAgreement DEF IsEditableBy
    <3> QED BY <2>1, <3>1 DEF CanSeeDetail
  <2>3. CASE HasPerm(u, "view_all_submission") \/ own \/ source = "ALWAYS"
    BY <2>1, <2>3 DEF CanSeeDetail
  <2>4. CASE inContest /\ IsContestEditor(u)
    BY <2>1, <2>4 DEF CanSeeDetail
  <2>5. CASE /\ In("completed", u)
             /\ In("testers", u) \/ (source = "SOLVED" /\ Is("is_public"))
    <3>1. source \in {"ALWAYS", "SOLVED", "ONLY_OWN"} /\ In("solved", u)
      BY <1>1, <2>5 DEF TypeOK, Sources
    <3> QED BY <2>1, <2>5, <3>1 DEF CanSeeDetail
  <2> QED BY <1>1, <2>2, <2>3, <2>4, <2>5 DEF RowLinks
<1>2. TypeOK => RowLinkOpens
  BY <1>1 DEF RowLinkOpens
<1> QED BY <1>2, TypeCorrect, PTL
=============================================================================
