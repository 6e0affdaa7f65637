\* Violated: an approval between the read and the commit of an edit.
CONSTANTS
    Recruiters = {rec1}
    Members = {rec1}
    Admins = {adm1}
    Notes = {}
    Requests = {q1, q2, q3}
    None = None
SPECIFICATION Spec
SYMMETRY Symmetry
CHECK_DEADLOCK FALSE
PROPERTY
    EditResetsModeration
