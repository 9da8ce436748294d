SPECIFICATION FairSpec
CONSTANTS
    MaxDatagrams = 4
INVARIANT OnlyPlainProbesAnswered
PROPERTY DatagramsTaken
