\* One post, and another number it may be moved to.
SPECIFICATION Spec
CONSTANTS
    Posts = {p1}
    Numbers = {n1, n2}
    None = None
INVARIANT RetryConverges
\* When every post is rejected nothing need happen any more.
CHECK_DEADLOCK FALSE
