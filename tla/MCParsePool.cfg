SPECIFICATION IndexSpec
CONSTANTS
    Workers = {w1, w2}
    Units = 3
    MaxIdleDeaths = 1
    None = None
    Programs <- MCPrograms
    Repository = {1, 2, 3, 4, 5}
    Oversized = {5}
    Basename <- MCBasename
    Local = Local
    Global = Global
    Outside = Outside
    Shape = Shape
    Circle = Circle
    Square = Square
    Stream = Stream
INVARIANTS
    PoolIsTrue
    IndexIsOfTheSource
    MissedIsTold
PROPERTIES
    ResultsFinal
    PoolFinishes
