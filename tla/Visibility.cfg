CONSTANTS
  u1 = u1  o1 = o1
  Users = {u1}
  Anonymous = Anonymous
  Orgs = {o1}
  MaxRows = 3
SPECIFICATION Spec
INVARIANTS ProblemListAgrees EditListAgrees ContestListAgrees RowLinkOpens TicketListAgrees
