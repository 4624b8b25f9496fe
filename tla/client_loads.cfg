SPECIFICATION ClientSpec
CONSTANTS
    Threads = {main, worker}
    main = main
    worker = worker
    MaxLoads = 2
    MaxBegins = 1
    MaxServices = 2
INVARIANTS DeathToldOnce ProxyIsWatched
PROPERTIES DeadProxyDropped
CHECK_DEADLOCK FALSE
