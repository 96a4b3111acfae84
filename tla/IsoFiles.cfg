SPECIFICATION Spec
CONSTANTS
    Workers = {v, w}
    Names = {m, n}
SYMMETRY Alike
INVARIANTS TypeOK UploadsOwn NodeByNode
