SPECIFICATION Spec
CONSTANT Solution = {"alice", "bob"}
INVARIANTS TypeOK CallsAreLegal NothingLeaks
