SPECIFICATION Spec
CONSTANTS
  n1 = n1
  n2 = n2
  n3 = n3
  n4 = n4
  Nodes <- FourNodes
  Groups <- ThreeGroups
  Plans <- AllPlans
INVARIANTS WalkIsSound SubmissionOrder
PROPERTIES ConsumeComesBack
