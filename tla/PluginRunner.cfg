SPECIFICATION PluginFairSpec
CONSTANT MaxInvokes = 3
INVARIANT SuccessIsWhole
PROPERTY FirstAnswered
