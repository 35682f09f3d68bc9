CONSTANTS
    Pkgs = {"main", "a", "b"}
    Main = "main"
    Vals = {1, 2, 3, 4, 5}
    Zero = 0
    Programs <- MCPrograms
SPECIFICATION Spec
INVARIANT InitOnce
