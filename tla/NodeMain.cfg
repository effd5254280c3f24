SPECIFICATION Spec
CONSTANTS
    Main = Main
    Embed = Embed
    Uv = Uv
    f1 = f1
    p1 = p1
    None = None
    Timer = Timer
    Threads = {Main, Embed}
    Functions = {Uv, f1}
    Callers = {p1}
    MaxSources = 2
    MaxLoops = 3
PROPERTIES ImplementsNodeBindings ImplementsRunLoop 
