-------------------------- MODULE MCFunctionBuild --------------------------
EXTENDS FunctionBuild, TLC

\* A function, and what a PUT may change of it, one thing or two at a time.
CONSTANTS code1, code2, conf1, conf2, hourly, daily, route, other
Plain == [code |-> code1, conf |-> conf1, cron |-> None, tasks |-> {}]

MCWanted == {Plain, [Plain EXCEPT !.code = code2, !.cron = daily, !.tasks = {route, other}],
             [Plain EXCEPT !.conf = conf2, !.cron = hourly, !.tasks = {route}]}
MCDeployed == {[Plain EXCEPT !.cron = hourly, !.tasks = {route}]}
=============================================================================
