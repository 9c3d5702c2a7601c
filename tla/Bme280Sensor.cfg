SPECIFICATION FairSpec
INVARIANTS TypeOK TaskHasContext ShownSettles
PROPERTIES FollowsSensor
