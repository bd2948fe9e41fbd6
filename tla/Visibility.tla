----------------------------- MODULE Visibility -----------------------------
(***************************************************************************)
(* Who may see and edit problems, contests, submissions and tickets.  The site *)
(* decides this in several places: a page asks a method of the object      *)
(* (src/judge/models/problem.py, contest.py, submission.py), a list or the *)
(* API filters a query by conditions written a second time, and the row of *)
(* a submission decides a third time whether to link to it                 *)
(* (src/judge/jinja2/submission.py).  The state is one problem, one        *)
(* contest, a submission of each user to both, and what the administrators *)
(* may change about them; the properties say that the copies agree.  An    *)
(* organization of the contest stands for a class of it as well.           *)
(***************************************************************************)
EXTENDS FiniteSets, Naturals

CONSTANTS
  Users,      \* profiles
  Anonymous,  \* request.user without a login
  Orgs,       \* organizations
  MaxRows     \* bound: rows that exist at a time, for TLC

ASSUME VisibilityAssumption == Anonymous \notin Users

\* Tables of users: permissions, and the roles for the problem and the contest.
Permissions == {"edit_own_problem", "edit_public_problem", "edit_all_problem",
                "see_private_problem", "see_organization_problem", "view_all_submission",
                "see_private_contest", "edit_own_contest", "edit_all_contest",
                "change_ticket"}
ProblemRoles == {"authors", "curators", "testers", "solved", "completed",
                 "in_contest_with_problem"}
ContestRoles == {"contest_authors", "contest_curators", "contest_testers", "spectators",
                 "view_contest_scoreboard", "view_contest_submissions", "private_contestants"}
ProblemFlags == {"is_public", "is_organization_private"}
ContestFlags == {"is_visible", "is_private", "contest_is_organization_private",
                 "tester_see_submissions"}
Sources == {"ALWAYS", "SOLVED", "ONLY_OWN"}

TicketRoles == {"ticket_user", "assignees"}  \* of a ticket about the problem

Rows ==
  ((Permissions \cup ProblemRoles \cup ContestRoles \cup TicketRoles) \X Users)
    \cup ({"members", "admins"} \X (Users \X Orgs))
    \cup ({"organizations", "contest_organizations"} \X Orgs)

VARIABLES
  rows,    \* the rows of these tables
  flags,   \* the flags of the problem and the contest that are set
  source   \* the problem's submission_source_visibility

visVars == <<rows, flags, source>>

People == Users \cup {Anonymous}

TypeOK ==
  /\ rows \subseteq Rows
  /\ flags \subseteq ProblemFlags \cup ContestFlags
  /\ source \in Sources

Init ==
  /\ rows = {}
  /\ flags \in SUBSET (ProblemFlags \cup ContestFlags)
  /\ source \in Sources

-----------------------------------------------------------------------------
(* Changes: forms of the admin site, organizations that are joined and     *)
(* left, submissions that are graded or rejudged.                          *)

Insert(r) ==
  /\ r \notin rows /\ Cardinality(rows) < MaxRows
  /\ rows' = rows \cup {r}
  /\ UNCHANGED <<flags, source>>

Delete(r) ==
  /\ r \in rows
  /\ rows' = rows \ {r}
  /\ UNCHANGED <<flags, source>>

SetFlag(f) ==
  /\ flags' = (flags \ {f}) \cup ({f} \ flags)
  /\ UNCHANGED <<rows, source>>

SetSource ==
  /\ source' \in Sources
  /\ UNCHANGED <<rows, flags>>

Next ==
  \/ \E r \in Rows : Insert(r) \/ Delete(r)
  \/ \E f \in ProblemFlags \cup ContestFlags : SetFlag(f)
  \/ SetSource

Spec == Init /\ [][Next]_visVars

In(table, u) == <<table, u>> \in rows
Is(f) == f \in flags
IsAuthenticated(u) == u \in Users
HasPerm(u, p) == IsAuthenticated(u) /\ In(p, u)
\* Of the organizations of a problem or a contest, one has u as member or admin.
Shares(u, side, table) ==
  \E o \in Orgs : <<side, <<u, o>>>> \in rows /\ <<table, o>> \in rows

-----------------------------------------------------------------------------
(* Problems.                                                               *)

IsEditor(u) == In("authors", u) \/ In("curators", u)
InOrganization(u) == Shares(u, "members", "organizations")
AdministersIt(u) == Shares(u, "admins", "organizations")

IsEditableBy(u) ==
  /\ IsAuthenticated(u) /\ HasPerm(u, "edit_own_problem")
  /\ \/ HasPerm(u, "edit_all_problem")
     \/ HasPerm(u, "edit_public_problem") /\ Is("is_public")
     \/ IsEditor(u)
     \/ Is("is_organization_private") /\ AdministersIt(u)

\* Variant with a bug: the editors of a hidden problem are forgotten.
AccessibleToTestersOnly(u, skip) ==
  \/ ~skip /\ IsAuthenticated(u) /\ In("in_contest_with_problem", u)
  \/ Is("is_public") /\ ~Is("is_organization_private")
  \/ IsAuthenticated(u) /\ (HasPerm(u, "see_private_problem") \/ In("testers", u))

\* "solved" has the users with a full score in the problem's points
\* (is_solved_by), "completed" those with one in the points of its cases.
IsAccessibleBy(u, skip) ==
  \/ ~skip /\ IsAuthenticated(u) /\ In("in_contest_with_problem", u)
  \/ /\ Is("is_public")
     /\ \/ ~Is("is_organization_private")
        \/ HasPerm(u, "see_organization_problem")
        \/ IsAuthenticated(u) /\ InOrganization(u)
  \/ /\ IsAuthenticated(u)
     /\ \/ HasPerm(u, "see_private_problem")
        \/ IsEditableBy(u) \/ IsEditor(u)
        \/ In("testers", u)

OrganizationFilter(u, side) ==
  Is("is_organization_private") /\ Shares(u, side, "organizations")

\* The problem is in the query of the list of user u.
InVisibleProblems(u) ==
  IF ~IsAuthenticated(u) THEN Is("is_public") /\ ~Is("is_organization_private")
  ELSE LET editOwn == HasPerm(u, "edit_own_problem")
           editPublic == editOwn /\ HasPerm(u, "edit_public_problem")
           editAll == editOwn /\ HasPerm(u, "edit_all_problem")
       IN \/ HasPerm(u, "see_private_problem") \/ editAll
          \/ /\ Is("is_public")
             /\ \/ HasPerm(u, "see_organization_problem") \/ editPublic
                \/ ~Is("is_organization_private") \/ OrganizationFilter(u, "members")
          \/ editOwn /\ OrganizationFilter(u, "admins")
          \/ IsEditor(u) \/ In("testers", u)

\* Variant with a bug: an organization's admins edit its problems, private or not.
EditableByOrganization(u) ==
  /\ HasPerm(u, "edit_own_problem")
  /\ HasPerm(u, "edit_all_problem") \/ IsEditor(u) \/ AdministersIt(u)

InEditableProblems(u) ==
  /\ HasPerm(u, "edit_own_problem")
  /\ \/ HasPerm(u, "edit_all_problem")
     \/ IsEditor(u)
     \/ Is("is_organization_private") /\ AdministersIt(u)
     \/ HasPerm(u, "edit_public_problem") /\ Is("is_public")

-----------------------------------------------------------------------------
(* Contests.                                                               *)

IsContestEditor(u) == In("contest_authors", u) \/ In("contest_curators", u)
InContestOrganization(u) == Shares(u, "members", "contest_organizations")

\* Variant with a bug: being in the organization is enough for a contest that is
\* private to some users as well.
AccessCheckEither(u) ==
  /\ Is("is_visible")
  /\ \/ ~Is("is_private") /\ ~Is("contest_is_organization_private")
     \/ IsAuthenticated(u) /\ (InContestOrganization(u) \/ In("private_contestants", u))

\* access_check raises nothing.
AccessCheck(u) ==
  IF ~IsAuthenticated(u)
  THEN Is("is_visible") /\ ~Is("is_private") /\ ~Is("contest_is_organization_private")
  ELSE \/ HasPerm(u, "see_private_contest") \/ HasPerm(u, "edit_all_contest")
       \/ IsContestEditor(u) \/ In("contest_testers", u) \/ In("spectators", u)
       \/ /\ Is("is_visible")
          /\ \/ In("view_contest_scoreboard", u)
             \/ /\ Is("contest_is_organization_private") => InContestOrganization(u)
                /\ Is("is_private") => In("private_contestants", u)

InVisibleContests(u) ==
  LET org == Is("contest_is_organization_private")
      priv == Is("is_private")
      listed == In("private_contestants", u)
  IN IF ~IsAuthenticated(u) THEN Is("is_visible") /\ ~org /\ ~priv
     ELSE \/ HasPerm(u, "see_private_contest") \/ HasPerm(u, "edit_all_contest")
          \/ /\ Is("is_visible")
             /\ \/ In("view_contest_scoreboard", u)
                \/ ~org /\ ~priv
                \/ ~org /\ priv /\ listed
                \/ org /\ ~priv /\ InContestOrganization(u)
                \/ org /\ priv /\ listed /\ InContestOrganization(u)
          \/ In("contest_authors", u) \/ In("contest_curators", u)
          \/ In("contest_testers", u) \/ In("spectators", u)

ContestEditableBy(u) ==
  HasPerm(u, "edit_all_contest") \/ (HasPerm(u, "edit_own_contest") /\ IsContestEditor(u))

-----------------------------------------------------------------------------
(* A submission to the problem: u's own or not, in the contest or not.     *)

\* Variant with a bug: to have solved the problem is not enough.
DetailForTesters(u, own, inContest) ==
  /\ IsAuthenticated(u)
  /\ \/ IsEditableBy(u) \/ HasPerm(u, "view_all_submission") \/ own
     \/ source = "ALWAYS"
     \/ In("testers", u) /\ (source = "ONLY_OWN" \/ In("solved", u))
     \/ inContest /\ IsContestEditor(u)

CanSeeDetail(u, own, inContest) ==
  /\ IsAuthenticated(u)
  /\ \/ IsEditableBy(u)
     \/ HasPerm(u, "view_all_submission")
     \/ own
     \/ source = "ALWAYS"
     \/ source = "SOLVED" /\ (Is("is_public") \/ In("testers", u)) /\ In("solved", u)
     \/ source = "ONLY_OWN" /\ In("testers", u)
     \/ /\ inContest
        /\ \/ IsContestEditor(u)
           \/ In("view_contest_submissions", u)
           \/ Is("tester_see_submissions") /\ In("contest_testers", u)

\* can_view of submission_layout.
RowLinks(u, own, inContest) ==
  \/ HasPerm(u, "edit_all_problem")
  \/ HasPerm(u, "edit_public_problem") /\ Is("is_public")
  \/ IsAuthenticated(u) /\ InEditableProblems(u)
  \/ HasPerm(u, "view_all_submission")
  \/ own
  \/ source = "ALWAYS"
  \/ inContest /\ IsContestEditor(u)
  \/ /\ In("completed", u)
     /\ In("testers", u) \/ (source = "SOLVED" /\ Is("is_public"))

-----------------------------------------------------------------------------
(* A ticket about the problem.                                             *)

InOwnTickets(u) == In("assignees", u) \/ In("ticket_user", u)

\* get_object of TicketMixin returns the ticket.
CanOpenTicket(u) ==
  /\ IsAuthenticated(u)
  /\ \/ HasPerm(u, "change_ticket")
     \/ In("ticket_user", u) \/ In("assignees", u)
     \/ IsEditableBy(u)

\* Variant with a bug: the authors' own problems are found by role alone.
TicketsByRole(u) == HasPerm(u, "change_ticket") \/ InOwnTickets(u) \/ IsEditor(u)

\* The ticket is in the list of all tickets, without the user's own filters.
InTickets(u) ==
  HasPerm(u, "change_ticket") \/ InOwnTickets(u) \/ InEditableProblems(u)

\* The ticket is in the list of the problem's tickets.
InProblemTickets(u) ==
  /\ IsEditableBy(u) \/ (IsAccessibleBy(u, FALSE) /\ InOwnTickets(u))
  /\ InTickets(u)

-----------------------------------------------------------------------------
\* A problem is in a user's list exactly if its page opens for the user outside
\* of contests.
ProblemListAgrees == \A u \in People : InVisibleProblems(u) <=> IsAccessibleBy(u, TRUE)

\* The query of problems to edit returns exactly what the edit check admits,
\* and nobody may edit what they cannot open.
EditListAgrees ==
  \A u \in People : /\ InEditableProblems(u) <=> IsEditableBy(u)
                    /\ IsEditableBy(u) => IsAccessibleBy(u, TRUE)

\* A contest is in a user's list exactly if its page opens, and who may edit it
\* may open it.
ContestListAgrees ==
  \A u \in People : /\ InVisibleContests(u) <=> AccessCheck(u)
                    /\ ContestEditableBy(u) => AccessCheck(u)

\* A submission's row links to a page that opens, for users whose permissions
\* to edit other problems come with the one to edit their own, and when the points
\* of the problem's submissions fit those of their cases.
RowLinkOpens ==
  \A u \in Users, own, inContest \in BOOLEAN :
    /\ RowLinks(u, own, inContest)
    /\ (HasPerm(u, "edit_all_problem") \/ HasPerm(u, "edit_public_problem"))
         => HasPerm(u, "edit_own_problem")
    /\ In("completed", u) => In("solved", u)
    => CanSeeDetail(u, own, inContest)

\* The list of tickets has exactly the tickets that open for the user.  The list of
\* a problem's tickets has no other, and every one of a user who opens the problem,
\* unless the user opens it only by the permission for all tickets.
TicketListAgrees ==
  \A u \in Users :
    /\ InTickets(u) <=> CanOpenTicket(u)
    /\ InProblemTickets(u) => CanOpenTicket(u)
    /\ CanOpenTicket(u) /\ IsAccessibleBy(u, FALSE) /\ ~HasPerm(u, "change_ticket")
         => InProblemTickets(u)
=============================================================================
