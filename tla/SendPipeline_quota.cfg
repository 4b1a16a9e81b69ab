\* Two workers, two nodes, a tight campaign the day has used in part, both recoveries, two overlapping
\* complaints and a death.
SPECIFICATION Spec
CONSTANTS
  w1 = w1  w2 = w2  n1 = n1  n2 = n2  f1 = f1  f2 = f2  ana = ana  bob = bob
  Jobs = {1, 2}
  RecipientOf <- OneRecipient
  Workers = {w1, w2}
  Nodes = {n1, n2}
  Nobody = Nobody
  NodeLimit <- OneEach
  CampaignLimit = 2
  Feeds = {f1, f2}
  ComplaintOf <- Complaints
  Recoveries = {"fail", "requeue"}
  MaxClaims = 2
  MaxDeaths = 1
SYMMETRY Symmetric
INVARIANTS TypeOK QuotaHolds SentOnce SuppressedNotSent
CHECK_DEADLOCK FALSE
